---- MODULE Spec2Model ----
(***************************************************************************)
(* FloppyCat backup engine: the orchestrator of Backupper.py driving the   *)
(* worker bodies of tree_parser.py, checksums.py, delete_files.py and      *)
(* copy_entries.py, with the request flags the GUI of GUIHandler.py sets.  *)
(*                                                                         *)
(* Modelling decisions                                                     *)
(*  - A path is a sequence of segments; an absolute path /s/a is           *)
(*    <<"s","a">>.  os.path.join is concatenation, os.path.relpath drops   *)
(*    the prefix, os.path.dirname drops the last segment.                  *)
(*  - The file system is one function fs: absolute path -> [kind, data].   *)
(*    It holds no symbolic links, so the PATH_SYMLINK branches of          *)
(*    tree_parser and copy_entries and the follow_symlinks flag have no    *)
(*    effect; permission modes are not modelled.                           *)
(*  - Worker arguments are bound by name (Backupper.py passes the queues,  *)
(*    digests, counters and the control value the worker bodies name).     *)
(*  - A dictionary is a function; iteration order is not observable in     *)
(*    the model, so the manifest is compared as a set of records.          *)
(*  - hashlib's digest is an injective map on the modelled contents.       *)
(*  - A worker's queue.get times out only when the queue is empty and the  *)
(*    feeder thread has ended (feeding is far faster than QUEUE_TIMEOUT).  *)
(*  - A worker that _process_killer has killed dies in a step of its own,  *)
(*    so that the killer may look at it before it is dead.                 *)
(*  - The sleeps of the loops are steps of the other processes.            *)
(*  - DisplayablePath is not among the sources: make_tree yields one path  *)
(*    for the destination and one for every entry below it.                *)
(*  - The control values of _control_values are modelled by their names.   *)
(*  - Backupper.py's PATH_IS_FILE and PATH_IS_DIR are tree_parser.py's      *)
(*    PATH_FILE and PATH_DIR; each is modelled by the partition of the     *)
(*    tree it selects.                                                     *)
(***************************************************************************)
EXTENDS Integers, Sequences, FiniteSets, TLC

VARIABLES
    cfg,                    \* ConfigManager values read by the run, and cpu_count()
    input_entries,          \* parse_input_entries() result: path -> skip
    fs,                     \* the file system: absolute path -> [kind, data]
    manifest,               \* records of the checksums file on disk: key -> digest
    pc,                     \* position of the orchestrator thread
    runs,                   \* number of runs started so far
    request_pause, request_resume, request_cancel, paused,
    stage_current, stages_total,
    stats,                  \* the multiprocessing.Value counters
    finished_signal,        \* codes emitted on the finished signal, in order
    exit_status,            \* value returned by the last start_backup call
    input_tree, skipped_entries_abs, output_tree,
    checksums_input, checksums_output_parsed, checksums_output,
    control_value,          \* control Value of the running pool
    processes,              \* worker processes of the running pool
    queue_in,               \* directories_to_parse_queue / filepaths_queue / output_tree_queue
    queue_out,              \* parsed_queue / checksum_out_queue
    filler,                 \* feeder thread: [todo, exit, alive]
    orch,                   \* orchestrator position inside the pool loop
    tree,                   \* tree being collected by _generate_tree
    checksums,              \* dictionary being collected by _calculate_checksum
    dirs_todo,              \* stage 5 / stage 8 loop: entries not yet visited
    hist,                   \* history of the run (requests seen, operations done)
    call                    \* a function of the program applied on its own: [op, ...]

vars == <<cfg, input_entries, fs, manifest, pc, runs, request_pause, request_resume,
          request_cancel, paused, stage_current, stages_total, stats, finished_signal,
          exit_status, input_tree, skipped_entries_abs, output_tree, checksums_input,
          checksums_output_parsed, checksums_output, control_value, processes, queue_in,
          queue_out, filler, orch, tree, checksums, dirs_todo, hist, call>>

-----------------------------------------------------------------------------
(* Program constants *)

EXIT_CODE_SUCCESSFULLY == 0
EXIT_CODE_ERROR == 1
EXIT_CODE_CANCELED == 2

PROCESS_CONTROL_WORK == "WORK"
PROCESS_CONTROL_PAUSE == "PAUSE"
PROCESS_CONTROL_EXIT == "EXIT"

PATH_FILE == "files"
PATH_DIR == "dirs"
PATH_UNKNOWN == "unknown"

\* f"checksums.{checksum_alg.lower()}" with the default MD5, and "tree.txt"
ChecksumFileName == "checksums.md5"
TreeFileName == "tree.txt"

\* Number of queue slots per worker process
QueueSlotsPerProcess == 10

-----------------------------------------------------------------------------
(* Bounds of the model *)

\* Runs started one after the other on the same destination
MaxRuns == 2

-----------------------------------------------------------------------------
(* Paths *)

join(root, rel) == root \o rel

dirname(path) == SubSeq(path, 1, Len(path) - 1)

relpath(path, start) == SubSeq(path, Len(start) + 1, Len(path))

IsPrefix(p, q) == Len(p) <= Len(q) /\ SubSeq(q, 1, Len(p)) = p

\* os.path.normpath(abs).split(os.path.sep): the leading separator gives a
\* first empty segment
SplitAbs(path) == <<"">> \o path

EmptyMap == [k \in {} |-> 0]

Put(map, k, v) == [x \in DOMAIN map \cup {k} |-> IF x = k THEN v ELSE map[x]]

\* dict.update: the argument's records win
Update(map, other) == [x \in DOMAIN map \cup DOMAIN other |->
                          IF x \in DOMAIN other THEN other[x] ELSE map[x]]

Remove(map, ks) == [x \in DOMAIN map \ ks |-> map[x]]

-----------------------------------------------------------------------------
(* File system *)

File(d) == [kind |-> "file", data |-> d]
Dir == [kind |-> "dir", data |-> 0]

exists(f, p) == p \in DOMAIN f
isfile(f, p) == p \in DOMAIN f /\ f[p].kind = "file"
isdir(f, p) == p \in DOMAIN f /\ f[p].kind = "dir"

Children(f, p) == {q \in DOMAIN f : Len(q) = Len(p) + 1 /\ IsPrefix(p, q)}

Below(f, p) == {q \in DOMAIN f : IsPrefix(p, q)}

\* hashlib.new(alg).hexdigest() of a file's content
hexdigest(data) == (data * 7) % 4001

output_dir == <<"dst">>
checksum_file_out == join(output_dir, <<ChecksumFileName>>)
tree_file == join(output_dir, <<TreeFileName>>)


\* Content of the checksums file written for a set of records, as a number
\* (a positional code of its keys and digests)
SegmentNames == <<"s", "a", "d", "f", "e", "b", "x", "z", "y", "dst", ChecksumFileName, TreeFileName, ".">>
SegCode(seg) == CHOOSE i \in 1..Len(SegmentNames) : SegmentNames[i] = seg

RECURSIVE KeyCode(_)
KeyCode(key) == IF key = <<>> THEN 1
                ELSE (KeyCode(dirname(key)) * 17 + SegCode(key[Len(key)])) % 997

RECURSIVE SumCodes(_, _)
SumCodes(recs, keys) ==
    IF keys = {} THEN 0
    ELSE LET k == CHOOSE x \in keys : TRUE
         IN  (KeyCode(k) * (recs[k] + 1) + SumCodes(recs, keys \ {k})) % 997

ManifestData(recs) == 1000 + SumCodes(recs, DOMAIN recs)

\* Content of tree.txt after the given number of lines was written
TreeData(lines) == 2000 + lines

-----------------------------------------------------------------------------
(* Backupper.get_max_cpu_numbers *)

get_max_cpu_numbers(workload_profile, cpu_cores) ==
    IF workload_profile = "very low" THEN 1
    ELSE IF workload_profile = "low" THEN cpu_cores \div 4
    ELSE IF workload_profile = "high" THEN (cpu_cores * 3) \div 4
    ELSE IF workload_profile = "insane" THEN cpu_cores
    ELSE cpu_cores \div 2

min(a, b) == IF a < b THEN a ELSE b

-----------------------------------------------------------------------------
(* delete_files.is_path_relative_to *)

\* The loop over parent_path: i is the position in parent_path, child_part_index
\* the number of child segments matched, last the position of the last match
\* (0 for none).  The result is the final value of parent_part_last_match_index.
RECURSIVE IsRelativeWalk(_, _, _, _, _)
IsRelativeWalk(parent_path, child_path, i, child_part_index, last) ==
    IF i > Len(parent_path) THEN last
    ELSE IF parent_path[i] = child_path[child_part_index + 1]
         THEN IF child_part_index + 1 >= Len(child_path)
              THEN i
              ELSE IsRelativeWalk(parent_path, child_path, i + 1, child_part_index + 1, i)
         ELSE IsRelativeWalk(parent_path, child_path, i + 1, 0, 0)

is_path_relative_to(parent_path, child_path) ==
    IsRelativeWalk(parent_path, child_path, 1, 0, 0) = Len(parent_path)

-----------------------------------------------------------------------------
(* Trees *)

EmptyTree == [files |-> EmptyMap, dirs |-> EmptyMap, unknown |-> EmptyMap]

Parsed(rel, root, type, empty) == [rel |-> rel, root |-> root, type |-> type, empty |-> empty]

path_type(f, p) == IF isfile(f, p) THEN PATH_FILE
                   ELSE IF isdir(f, p) THEN PATH_DIR ELSE PATH_UNKNOWN

\* _generate_tree with a loop over the entries that does not pass over the
\* ignored paths: C5 does not hold of it
GenerateTreeSeedsOfAll(f, entries, root_relative_to_dirname, ignore_filepaths_abs) ==
    LET active == {p \in DOMAIN entries : ~entries[p]}
        root_dir(p) == IF root_relative_to_dirname THEN dirname(p) ELSE p
    IN  [skipped |-> {p \in DOMAIN entries : entries[p]},
         parsed |-> {Parsed(relpath(p, root_dir(p)), root_dir(p), path_type(f, p), FALSE) :
                        p \in active},
         dirs |-> {<<(IF root_relative_to_dirname THEN relpath(p, root_dir(p)) ELSE <<>>),
                     root_dir(p)>> : p \in {q \in active : isdir(f, q)}}]

\* Backupper._generate_tree, the loop over the entries: what is put on
\* parsed_queue and on directories_to_parse_queue, and the skipped entries
GenerateTreeSeeds(f, entries, root_relative_to_dirname, ignore_filepaths_abs) ==
    LET taken == {p \in DOMAIN entries : p \notin ignore_filepaths_abs}
        active == {p \in taken : ~entries[p]}
        root_dir(p) == IF root_relative_to_dirname THEN dirname(p) ELSE p
    IN  [skipped |-> {p \in taken : entries[p]},
         parsed |-> {Parsed(relpath(p, root_dir(p)), root_dir(p), path_type(f, p), FALSE) :
                        p \in active},
         dirs |-> {<<(IF root_relative_to_dirname THEN relpath(p, root_dir(p)) ELSE <<>>),
                     root_dir(p)>> : p \in {q \in active : isdir(f, q)}}]

\* tree_parser, the body of the loop for one dequeued (parent_dir, root_dir)
TreeParserItem(f, item, skipped) ==
    LET parent_dir_abs == join(item[2], item[1])
        listed == IF parent_dir_abs \in skipped \/ ~isdir(f, parent_dir_abs)
                  THEN {}
                  ELSE {c \in Children(f, parent_dir_abs) : c \notin skipped}
        is_empty(c) == Children(f, c) = {}
    IN  [parsed |-> {Parsed(relpath(c, item[2]), item[2], path_type(f, c),
                            isdir(f, c) /\ is_empty(c)) : c \in listed},
         dirs |-> {<<relpath(c, item[2]), item[2]>> :
                      c \in {x \in listed : isdir(f, x) /\ ~is_empty(x)}},
         ndirs |-> Cardinality({c \in listed : isdir(f, c)}),
         nfiles |-> Cardinality({c \in listed : isfile(f, c)})]

\* Backupper._generate_tree, the fold of the entries read from parsed_queue
CollectParsed(t, got, ignore_filepaths_abs) ==
    LET kept == {e \in got : join(e.root, e.rel) \notin ignore_filepaths_abs}
        of(type) == {e \in kept : e.type = type}
        one(type, rel) == CHOOSE e \in of(type) : e.rel = rel
    IN  [files |-> Update(t.files, [rel \in {e.rel : e \in of(PATH_FILE)} |->
                                       [root |-> one(PATH_FILE, rel).root]]),
         dirs |-> Update(t.dirs, [rel \in {e.rel : e \in of(PATH_DIR)} |->
                                     [root |-> one(PATH_DIR, rel).root,
                                      empty |-> one(PATH_DIR, rel).empty]]),
         unknown |-> Update(t.unknown, [rel \in {e.rel : e \in of(PATH_UNKNOWN)} |->
                                           [root |-> one(PATH_UNKNOWN, rel).root]])]

-----------------------------------------------------------------------------
(* checksums.py *)

\* parse_checksums_from_file: the records of the file, {} when it is absent
parse_checksums_from_file(f, recs, checksum_file, root_dir) ==
    IF ~exists(f, checksum_file) THEN EmptyMap
    ELSE [k \in DOMAIN recs |-> [root |-> root_dir, checksum |-> recs[k]]]

\* calculate_checksums, the body of the loop for one dequeued (rel, root):
\* what is put on checksum_out_queue and the counters' increments
CalculateChecksumsItem(f, item) ==
    LET filepath_abs == join(item[2], item[1])
    IN  IF ~exists(f, filepath_abs) THEN [out |-> {}, ok |-> 0, error |-> 0]
        ELSE IF isfile(f, filepath_abs)
        THEN [out |-> {[rel |-> item[1], root |-> item[2],
                        checksum |-> hexdigest(f[filepath_abs].data)]},
              ok |-> 1, error |-> 0]
        ELSE [out |-> {}, ok |-> 0, error |-> 1]

\* Backupper._calculate_checksum, the fold of the records read from the queue
CollectChecksums(sums, got) ==
    Update(sums, [rel \in {r.rel : r \in got} |->
                     LET r == CHOOSE x \in got : x.rel = rel
                     IN  [root |-> r.root, checksum |-> r.checksum]])


-----------------------------------------------------------------------------
(* delete_files.py *)

RemoveBelow(f, p) == [q \in DOMAIN f \ Below(f, p) |-> f[q]]

\* delete_files, the decision for one dequeued entry: TRUE when it is deleted
DeleteFlag(item, in_tree, skipped_entries_abs_parts, delete_skipped) ==
    LET in_skipped == \E parts \in skipped_entries_abs_parts :
                          is_path_relative_to(parts, item.rel)
    IN  IF in_skipped \/ item.rel \in DOMAIN in_tree[item.type]
        THEN ~(~in_skipped \/ (in_skipped /\ ~delete_skipped))
        ELSE TRUE

\* delete_files, the removal of an entry it has decided to delete, whatever
\* is at its path by then: the file system after it and the counters' increments
DeleteEntry(f, item) ==
    LET out_filepath_abs == join(item.root, item.rel)
        removed == [fs |-> RemoveBelow(f, out_filepath_abs), ok |-> 1, error |-> 0]
        failed == [fs |-> f, ok |-> 0, error |-> 1]
    IN  IF item.type = PATH_FILE
        THEN IF isfile(f, out_filepath_abs) THEN removed ELSE failed
        ELSE IF item.type = PATH_DIR
        THEN IF item.empty
             THEN IF isdir(f, out_filepath_abs) /\ Children(f, out_filepath_abs) = {}
                  THEN removed
                  ELSE failed
             ELSE \* rmtree ignores its errors; rmdir is called on what is left
                  IF isfile(f, out_filepath_abs) THEN failed ELSE removed
        ELSE \* os.remove, then rmtree: deleted is set by os.remove only
             IF isfile(f, out_filepath_abs) THEN removed
             ELSE [fs |-> RemoveBelow(f, out_filepath_abs), ok |-> 0, error |-> 1]

\* delete_files, the body of the loop for one dequeued (tree_type, filepath_rel,
\* root_empty): the file system after it and the counters' increments
DeleteFilesItem(f, item, in_tree, skipped_entries_abs_parts, delete_skipped) ==
    LET out_filepath_abs == join(item.root, item.rel)
        same == [fs |-> f, ok |-> 0, error |-> 0]
    IN  IF ~exists(f, out_filepath_abs) THEN same
        ELSE IF ~DeleteFlag(item, in_tree, skipped_entries_abs_parts, delete_skipped) THEN same
        ELSE DeleteEntry(f, item)

-----------------------------------------------------------------------------
(* copy_entries.py *)

\* os.makedirs(path): every missing ancestor is created; it fails when the
\* path exists or an existing ancestor is not a directory
RECURSIVE makedirs(_, _)
makedirs(f, path) ==
    IF exists(f, path) THEN [fs |-> f, ok |-> FALSE]
    ELSE IF Len(path) <= 1 THEN [fs |-> Put(f, path, Dir), ok |-> TRUE]
    ELSE IF isdir(f, dirname(path)) THEN [fs |-> Put(f, path, Dir), ok |-> TRUE]
    ELSE IF exists(f, dirname(path)) THEN [fs |-> f, ok |-> FALSE]
    ELSE LET up == makedirs(f, dirname(path))
         IN  IF up.ok THEN [fs |-> Put(up.fs, path, Dir), ok |-> TRUE]
             ELSE [fs |-> f, ok |-> FALSE]

\* make_dirs, the loop over the parts of target_dir_path_rel
RECURSIVE MakeDirsWalk(_, _, _, _, _)
MakeDirsWalk(f, target_dir_path_rel, i, created, errors) ==
    IF i > Len(target_dir_path_rel)
    THEN [fs |-> f, created |-> created, errors |-> errors]
    ELSE LET dir_to_make_abs == join(output_dir, SubSeq(target_dir_path_rel, 1, i))
         IN  IF isdir(f, dir_to_make_abs)
             THEN MakeDirsWalk(f, target_dir_path_rel, i + 1, created, errors)
             ELSE LET made == makedirs(f, dir_to_make_abs)
                  IN  IF made.ok
                      THEN MakeDirsWalk(made.fs, target_dir_path_rel, i + 1, created + 1, errors)
                      ELSE MakeDirsWalk(f, target_dir_path_rel, i + 1, created, errors + 1)

\* make_dirs: the file system after it, whether the target directory exists
\* then, and the counters' increments
make_dirs(f, target_dir_path_rel) ==
    IF isdir(f, join(output_dir, target_dir_path_rel))
    THEN [fs |-> f, ok |-> TRUE, created |-> 0, errors |-> 0]
    ELSE LET w == MakeDirsWalk(f, target_dir_path_rel, 1, 0, 0)
         IN  [fs |-> w.fs, ok |-> isdir(w.fs, join(output_dir, target_dir_path_rel)),
              created |-> w.created, errors |-> w.errors]

\* shutil.copy(src, dst): into dst when dst is a directory; the file system
\* after it and whether it succeeded
shutil_copy(f, src, dst) ==
    LET real == IF isdir(f, dst) THEN join(dst, <<src[Len(src)]>>) ELSE dst
    IN  IF ~isfile(f, src) \/ isdir(f, real) \/ ~isdir(f, dirname(real))
        THEN [fs |-> f, ok |-> FALSE]
        ELSE [fs |-> Put(f, real, File(f[src].data)), ok |-> TRUE]

\* A test that skips every entry whose destination exists: C23 does not hold
\* of it
CopyIsThere(f, output_path_abs, filepath_rel, sums_in, sums_out) ==
    exists(f, output_path_abs)

\* copy_entries, the test that skips an entry whose copy is up to date
CopyIsUpToDate(f, output_path_abs, filepath_rel, sums_in, sums_out) ==
    /\ exists(f, output_path_abs)
    /\ filepath_rel \in DOMAIN sums_in
    /\ filepath_rel \in DOMAIN sums_out
    /\ sums_out[filepath_rel].checksum = sums_in[filepath_rel].checksum

\* copy_entries, the body of the loop for one dequeued (rel, root): the file
\* system after it and the counters' increments
CopyEntriesItem(f, item, sums_in, sums_out) ==
    LET input_file_abs == join(item[2], item[1])
        output_path_abs == join(output_dir, item[1])
        output_file_base_dir == dirname(output_path_abs)
        none == [fs |-> f, copied |-> 0, error |-> 0, dirs_ok |-> 0, dirs_error |-> 0,
                 src |-> {}]
    IN  IF ~exists(f, input_file_abs) THEN none
        ELSE IF CopyIsUpToDate(f, output_path_abs, item[1], sums_in, sums_out) THEN none
        ELSE LET md == IF ~exists(f, output_file_base_dir)
                       THEN make_dirs(f, relpath(output_file_base_dir, output_dir))
                       ELSE [fs |-> f, ok |-> TRUE, created |-> 0, errors |-> 0]
                 cp == shutil_copy(md.fs, input_file_abs, output_path_abs)
             IN  IF ~md.ok
                 THEN [fs |-> md.fs, copied |-> 0, error |-> 0, dirs_ok |-> md.created,
                       dirs_error |-> md.errors, src |-> {}]
                 ELSE IF cp.ok
                 THEN [fs |-> cp.fs, copied |-> 1, error |-> 0, dirs_ok |-> md.created,
                       dirs_error |-> md.errors, src |-> {input_file_abs}]
                 ELSE [fs |-> md.fs, copied |-> 0, error |-> 1, dirs_ok |-> md.created,
                       dirs_error |-> md.errors, src |-> {}]


-----------------------------------------------------------------------------
(* The inputs of the model *)

\* The source side of the file system
SourceFS == (<<"s">> :> Dir) @@ (<<"s", "a">> :> File(1)) @@ (<<"s", "d">> :> Dir)
            @@ (<<"s", "d", "f">> :> File(2)) @@ (<<"s", "e">> :> Dir)

\* Results of parse_input_entries: path -> skip
InputEntriesChoices ==
    { (<<"s">> :> FALSE),
      (<<"s">> :> FALSE) @@ (<<"s", "d">> :> TRUE),
      (<<"s", "d">> :> TRUE) @@ (<<"s", "d", "f">> :> FALSE),
      (<<"s", "a">> :> FALSE) @@ (<<"b", "b">> :> TRUE) }

\* States of the destination before the first run: [fs, manifest]
MirrorChoices ==
    { [fs |-> EmptyMap, manifest |-> EmptyMap],
      [fs |-> (output_dir :> Dir) @@ (<<"dst", "y">> :> Dir), manifest |-> EmptyMap],
      [fs |-> (output_dir :> Dir) @@ (<<"dst", "b">> :> Dir) @@ (<<"dst", "b", "x">> :> File(3))
              @@ (<<"dst", "z">> :> File(4)),
       manifest |-> EmptyMap],
      [fs |-> (output_dir :> Dir) @@ (<<"dst", "s">> :> Dir) @@ (<<"dst", "s", "a">> :> File(9))
              @@ (<<"dst", "a">> :> File(9))
              @@ (checksum_file_out :> File(ManifestData(
                     (<<"s", "a">> :> hexdigest(1)) @@ (<<"a">> :> hexdigest(1))
                     @@ (<<"z">> :> hexdigest(4))))),
       manifest |-> (<<"s", "a">> :> hexdigest(1)) @@ (<<"a">> :> hexdigest(1))
                    @@ (<<"z">> :> hexdigest(4))] }

WorkloadProfiles == {"very low", "low", "normal", "high", "insane"}
CpuCoresChoices == {2}

ConfigChoices ==
    [delete_data : BOOLEAN, delete_skipped : BOOLEAN, create_empty_dirs : BOOLEAN,
     generate_tree : BOOLEAN, recalculate_checksum : BOOLEAN,
     workload_profile : WorkloadProfiles, cpu_cores : CpuCoresChoices]

-----------------------------------------------------------------------------
(* State *)

ZeroStats == [tree_parsed_dirs |-> 0, tree_parsed_files |-> 0,
              checksums_calculate_ok |-> 0, checksums_calculate_error |-> 0,
              deleted_ok |-> 0, deleted_error |-> 0,
              created_dirs_ok |-> 0, created_dirs_error |-> 0,
              copied_ok |-> 0, copied_error |-> 0,
              validate_match |-> 0, validate_not_match |-> 0, validate_not_exist |-> 0]

NoFiller == [todo |-> {}, exit |-> FALSE, alive |-> FALSE]

NoHist == [fs_start |-> EmptyMap, cancel |-> FALSE, copied |-> {}, digested |-> {},
           created |-> {}, prev_manifest |-> EmptyMap, prev_status |-> -1, pause |-> FALSE,
           validate |-> FALSE, match |-> {}, not_match |-> {}, not_exist |-> {}]

TreePools == {"tree_in", "tree_out", "tree_final", "v_tree"}
ChecksumPools == {"sums_in", "sums_out", "sums_final", "v_sums"}
PoolStages == TreePools \cup ChecksumPools \cup {"delete", "copy"}
LoopStages == {"mkdirs", "tree_txt", "v_compare"}

InitWith(configs, entries, mirrors) ==
    /\ cfg \in configs
    /\ input_entries \in entries
    /\ \E m \in mirrors : fs = SourceFS @@ m.fs /\ manifest = m.manifest
    /\ pc = "idle"
    /\ runs = 0
    /\ request_pause = FALSE /\ request_resume = FALSE /\ request_cancel = FALSE
    /\ paused = FALSE
    /\ stage_current = 0 /\ stages_total = 0
    /\ stats = ZeroStats
    /\ finished_signal = <<>>
    /\ exit_status = -1
    /\ input_tree = EmptyTree /\ output_tree = EmptyTree
    /\ skipped_entries_abs = {}
    /\ checksums_input = EmptyMap /\ checksums_output_parsed = EmptyMap
    /\ checksums_output = EmptyMap
    /\ control_value = PROCESS_CONTROL_WORK
    /\ processes = <<>>
    /\ queue_in = <<>> /\ queue_out = {}
    /\ filler = NoFiller
    /\ orch = "none"
    /\ tree = EmptyTree /\ checksums = EmptyMap
    /\ dirs_todo = {}
    /\ hist = NoHist

\* No function of the program is applied on its own
NoCall == [op |-> "none"]

Init == InitWith(ConfigChoices, InputEntriesChoices, MirrorChoices) /\ call = NoCall


-----------------------------------------------------------------------------
(* Worker pools *)

RECURSIVE SeqOf(_)
SeqOf(set) == IF set = {} THEN <<>>
              ELSE LET x == CHOOSE y \in set : TRUE IN <<x>> \o SeqOf(set \ {x})

Alive(w) == processes[w].st # "exited"
AllExited == \A w \in DOMAIN processes : ~Alive(w)

\* exit: the worker has read PROCESS_CONTROL_EXIT at the top of its loop
NewProcesses(n) == [w \in 1..n |-> [st |-> "control", item |-> {}, killed |-> FALSE,
                                    exit |-> FALSE]]

MaxCpu == get_max_cpu_numbers(cfg.workload_profile, cfg.cpu_cores)

\* Pairs (relative path, root) of the entries of one partition of a tree
Pairs(partition) == {<<rel, partition[rel].root>> : rel \in DOMAIN partition}

\* The pool of Backupper._generate_tree: the queues are seeded and the workers
\* started
StartTreePool(stage, f, entries, root_relative_to_dirname, ignore_filepaths_abs) ==
    LET seeds == GenerateTreeSeeds(f, entries, root_relative_to_dirname, ignore_filepaths_abs)
    IN  /\ pc' = stage
        /\ queue_in' = SeqOf(seeds.dirs)
        /\ queue_out' = seeds.parsed
        /\ tree' = EmptyTree
        /\ checksums' = EmptyMap
        /\ control_value' = PROCESS_CONTROL_WORK
        /\ processes' = NewProcesses(MaxCpu)
        /\ filler' = NoFiller
        /\ orch' = "check"
        /\ dirs_todo' = {}

\* The pools of Backupper._calculate_checksum, _delete_files and _copy_entries:
\* the filler thread and the workers are started
StartFilledPool(stage, todo, processes_num) ==
    /\ pc' = stage
    /\ queue_in' = <<>>
    /\ queue_out' = {}
    /\ tree' = EmptyTree
    /\ checksums' = EmptyMap
    /\ control_value' = PROCESS_CONTROL_WORK
    /\ processes' = NewProcesses(processes_num)
    /\ filler' = [todo |-> todo, exit |-> FALSE, alive |-> todo # {}]
    /\ orch' = "check"
    /\ dirs_todo' = {}

\* A filler that puts every file of the tree: C30 does not hold of it
ChecksumTodoOfAll(files_tree, exclude_checksums) == Pairs(files_tree)

\* What the filler of _calculate_checksum puts on the queue: the files of the
\* tree that are not keys of exclude_checksums
ChecksumTodo(files_tree, exclude_checksums) ==
    {item \in Pairs(files_tree) : item[1] \notin DOMAIN exclude_checksums}

StartChecksumPool(stage, files_tree, exclude_checksums) ==
    StartFilledPool(stage, ChecksumTodo(files_tree, exclude_checksums),
                    min(Cardinality(DOMAIN files_tree), MaxCpu))

DeleteItems(out_tree) ==
    {[type |-> PATH_FILE, rel |-> rel, root |-> out_tree.files[rel].root, empty |-> FALSE] :
        rel \in DOMAIN out_tree.files}
    \cup {[type |-> PATH_DIR, rel |-> rel, root |-> out_tree.dirs[rel].root,
           empty |-> out_tree.dirs[rel].empty] : rel \in DOMAIN out_tree.dirs}
    \cup {[type |-> PATH_UNKNOWN, rel |-> rel, root |-> out_tree.unknown[rel].root,
           empty |-> FALSE] : rel \in DOMAIN out_tree.unknown}

\* The filler of _delete_files puts the files, then the directories, then the
\* unknown entries; the other fillers follow the dictionary they are given
FillerNext(todo) ==
    IF pc # "delete" THEN todo
    ELSE IF \E i \in todo : i.type = PATH_FILE THEN {i \in todo : i.type = PATH_FILE}
    ELSE IF \E i \in todo : i.type = PATH_DIR THEN {i \in todo : i.type = PATH_DIR}
    ELSE todo

QueueFull == /\ Len(processes) > 0
             /\ Len(queue_in) >= Len(processes) * QueueSlotsPerProcess

\* One turn of the filler thread's loop: it ends when its exit flag is set,
\* puts the next entry otherwise, and ends after the last one
FillerPut ==
    /\ pc \in PoolStages \ TreePools
    /\ filler.alive
    /\ ~QueueFull
    /\ IF filler.exit
       THEN /\ filler' = [filler EXCEPT !.alive = FALSE]
            /\ UNCHANGED queue_in
       ELSE \E item \in FillerNext(filler.todo) :
               /\ queue_in' = Append(queue_in, item)
               /\ filler' = [filler EXCEPT !.todo = @ \ {item},
                                           !.alive = (filler.todo # {item})]
    /\ UNCHANGED <<call, cfg, input_entries, fs, manifest, pc, runs, request_pause, request_resume,
                   request_cancel, paused, stage_current, stages_total, stats,
                   finished_signal, exit_status, input_tree, skipped_entries_abs,
                   output_tree, checksums_input, checksums_output_parsed, checksums_output,
                   control_value, processes, queue_out, orch, tree, checksums, dirs_todo,
                   hist>>

\* Variables no worker step changes
NotWorker == <<call, cfg, input_entries, manifest, pc, runs, request_pause, request_resume,
               request_cancel, paused, stage_current, stages_total, finished_signal,
               exit_status, input_tree, skipped_entries_abs, output_tree, checksums_input,
               checksums_output_parsed, checksums_output, control_value, filler, orch,
               tree, checksums, dirs_todo>>

\* A worker reads control_value at the top of its loop
WorkerControl(w) ==
    /\ pc \in PoolStages
    /\ processes[w].st = "control"
    /\ processes' = [processes EXCEPT
          ![w].st = IF control_value = PROCESS_CONTROL_PAUSE THEN "pause"
                    ELSE IF control_value = PROCESS_CONTROL_EXIT
                    THEN (IF pc \in ChecksumPools /\ queue_out # {} THEN "get" ELSE "exited")
                    ELSE "get",
          ![w].exit = (control_value = PROCESS_CONTROL_EXIT)]
    /\ UNCHANGED <<NotWorker, fs, stats, queue_in, queue_out, hist>>

\* A pause loop that a worker leaves whatever control_value is: C10 does not
\* hold of it
WorkerPauseLoopLeft(w) ==
    /\ pc \in PoolStages
    /\ processes[w].st = "pause"
    /\ processes' = [processes EXCEPT ![w].st =
          IF control_value = PROCESS_CONTROL_EXIT THEN "exited" ELSE "get"]
    /\ UNCHANGED <<NotWorker, fs, stats, queue_in, queue_out, hist>>

\* A paused worker polls control_value until it is WORK or EXIT
WorkerPauseLoop(w) ==
    /\ pc \in PoolStages
    /\ processes[w].st = "pause"
    /\ control_value # PROCESS_CONTROL_PAUSE
    /\ processes' = [processes EXCEPT ![w].st =
          IF control_value = PROCESS_CONTROL_EXIT THEN "exited" ELSE "get"]
    /\ UNCHANGED <<NotWorker, fs, stats, queue_in, queue_out, hist>>

\* queue.get(block=True, timeout=QUEUE_TIMEOUT) returns an entry
WorkerGet(w) ==
    /\ pc \in PoolStages
    /\ processes[w].st = "get"
    /\ queue_in # <<>>
    /\ processes' = [processes EXCEPT ![w].st = "work", ![w].item = {Head(queue_in)}]
    /\ queue_in' = Tail(queue_in)
    /\ UNCHANGED <<NotWorker, fs, stats, queue_out, hist>>

\* queue.get times out: the worker leaves its loop
WorkerTimeout(w) ==
    /\ pc \in PoolStages
    /\ processes[w].st = "get"
    /\ queue_in = <<>>
    /\ ~filler.alive
    /\ processes' = [processes EXCEPT ![w].st = "exited"]
    /\ UNCHANGED <<NotWorker, fs, stats, queue_in, queue_out, hist>>


AddStats(st, tree_dirs, tree_files, sums_ok, sums_error, deleted_ok, deleted_error, dirs_ok, dirs_error, copied_ok, copied_error) ==
    [tree_parsed_dirs |-> st.tree_parsed_dirs + tree_dirs,
     tree_parsed_files |-> st.tree_parsed_files + tree_files,
     checksums_calculate_ok |-> st.checksums_calculate_ok + sums_ok,
     checksums_calculate_error |-> st.checksums_calculate_error + sums_error,
     deleted_ok |-> st.deleted_ok + deleted_ok,
     deleted_error |-> st.deleted_error + deleted_error,
     created_dirs_ok |-> st.created_dirs_ok + dirs_ok,
     created_dirs_error |-> st.created_dirs_error + dirs_error,
     copied_ok |-> st.copied_ok + copied_ok,
     copied_error |-> st.copied_error + copied_error,
     validate_match |-> st.validate_match,
     validate_not_match |-> st.validate_not_match,
     validate_not_exist |-> st.validate_not_exist]

\* The source paths whose images are the directories that f2 has and f1 lacks
CreatedSources(f1, f2, root) ==
    {join(root, relpath(q, output_dir)) : q \in {x \in DOMAIN f2 \ DOMAIN f1 : isdir(f2, x)}}

\* The body of a worker's loop for the entry it has dequeued
WorkerProcess(w) ==
    /\ pc \in PoolStages
    /\ processes[w].st = "work"
    /\ LET item == CHOOSE i \in processes[w].item : TRUE
       IN  CASE pc \in TreePools ->
                  LET r == TreeParserItem(fs, item,
                                          IF pc = "tree_in" THEN skipped_entries_abs ELSE {})
                  IN  /\ queue_out' = queue_out \cup r.parsed
                      /\ queue_in' = queue_in \o SeqOf(r.dirs)
                      /\ stats' = AddStats(stats, r.ndirs, r.nfiles, 0, 0, 0, 0, 0, 0, 0, 0)
                      /\ UNCHANGED <<fs, hist>>
              [] pc \in ChecksumPools ->
                  LET r == CalculateChecksumsItem(fs, item)
                  IN  /\ queue_out' = queue_out \cup r.out
                      /\ stats' = AddStats(stats, 0, 0, r.ok, r.error, 0, 0, 0, 0, 0, 0)
                      /\ hist' = [hist EXCEPT !.digested =
                                     @ \cup {join(x.root, x.rel) : x \in r.out}]
                      /\ UNCHANGED <<fs, queue_in>>
              [] pc = "delete" ->
                  LET r == DeleteFilesItem(fs, item, input_tree,
                                           {SplitAbs(p) : p \in skipped_entries_abs},
                                           cfg.delete_skipped)
                  IN  /\ fs' = r.fs
                      /\ stats' = AddStats(stats, 0, 0, 0, 0, r.ok, r.error, 0, 0, 0, 0)
                      /\ UNCHANGED <<queue_in, queue_out, hist>>
              [] pc = "copy" ->
                  LET r == CopyEntriesItem(fs, item, checksums_input, checksums_output)
                  IN  /\ fs' = r.fs
                      /\ stats' = AddStats(stats, 0, 0, 0, 0, 0, 0, r.dirs_ok, r.dirs_error,
                                           r.copied, r.error)
                      /\ hist' = [hist EXCEPT !.copied = @ \cup r.src,
                                     !.created = @ \cup CreatedSources(fs, r.fs, item[2])]
                      /\ UNCHANGED <<queue_in, queue_out>>
    /\ processes' = [processes EXCEPT ![w].st = "control", ![w].item = {}]
    /\ UNCHANGED NotWorker

\* A worker that _process_killer has killed stops wherever it is
ProcessKilled(w) ==
    /\ pc \in PoolStages
    /\ processes[w].killed
    /\ Alive(w)
    /\ processes' = [processes EXCEPT ![w].st = "exited", ![w].item = {}]
    /\ UNCHANGED <<NotWorker, fs, stats, queue_in, queue_out, hist>>

-----------------------------------------------------------------------------
(* Backupper._exit, _pause, _process_controller *)

\* _exit(exit_status): the flags are reset and finished_signal is emitted
Exit(exit_code) ==
    /\ request_pause' = FALSE /\ request_resume' = FALSE /\ request_cancel' = FALSE
    /\ paused' = FALSE
    /\ finished_signal' = Append(finished_signal, exit_code)
    /\ exit_status' = exit_code
    /\ pc' = "done"
    /\ orch' = "none"
    /\ processes' = <<>>
    /\ queue_in' = <<>> /\ queue_out' = {}
    /\ filler' = NoFiller
    /\ control_value' = PROCESS_CONTROL_WORK
    /\ tree' = EmptyTree /\ checksums' = EmptyMap
    /\ dirs_todo' = {}

\* Variables the control steps of a pool's loop leave alone
NotControl == <<call, cfg, input_entries, fs, manifest, runs, stage_current, stages_total, stats,
                input_tree, skipped_entries_abs, output_tree, checksums_input,
                checksums_output_parsed, checksums_output, hist>>

\* The top of a pool's loop while the pool is not finished or results wait in
\* the queue: the results are folded in and _process_controller is called
PoolPoll ==
    /\ pc \in PoolStages
    /\ orch = "check"
    /\ ~AllExited \/ (queue_out # {} /\ pc \in TreePools \cup ChecksumPools)
    /\ IF pc \in TreePools
       THEN /\ tree' = CollectParsed(tree, queue_out,
                                     IF pc = "tree_in" THEN {} ELSE {output_dir})
            /\ queue_out' = {}
            /\ UNCHANGED checksums
       ELSE IF pc \in ChecksumPools
       THEN /\ checksums' = CollectChecksums(checksums, queue_out)
            /\ queue_out' = {}
            /\ UNCHANGED tree
       ELSE UNCHANGED <<tree, checksums, queue_out>>
    /\ orch' = "control"
    /\ UNCHANGED <<NotControl, pc, request_pause, request_resume, request_cancel, paused,
                   finished_signal, exit_status, control_value, processes, queue_in,
                   filler, dirs_todo>>

\* _process_controller with no request pending
ControllerIdle ==
    /\ pc \in PoolStages
    /\ orch = "control"
    /\ ~request_cancel /\ ~request_pause
    /\ orch' = "check"
    /\ UNCHANGED <<NotControl, pc, request_pause, request_resume, request_cancel, paused,
                   finished_signal, exit_status, control_value, processes, queue_in,
                   queue_out, filler, tree, checksums, dirs_todo>>

\* The start of _process_killer: the filler is told to exit and control_value
\* becomes EXIT
BeginKill ==
    /\ filler' = [filler EXCEPT !.exit = (pc \notin TreePools)]
    /\ control_value' = PROCESS_CONTROL_EXIT
    /\ orch' = "kill"

\* _process_controller with request_cancel set
ControllerCancel ==
    /\ pc \in PoolStages
    /\ orch = "control"
    /\ request_cancel
    /\ BeginKill
    /\ UNCHANGED <<NotControl, pc, request_pause, request_resume, request_cancel, paused,
                   finished_signal, exit_status, processes, queue_in, queue_out, tree,
                   checksums, dirs_todo>>

\* _process_controller with request_pause set: control_value becomes PAUSE and
\* _pause is entered
ControllerPause ==
    /\ pc \in PoolStages
    /\ orch = "control"
    /\ ~request_cancel /\ request_pause
    /\ control_value' = PROCESS_CONTROL_PAUSE
    /\ request_pause' = FALSE
    /\ paused' = TRUE
    /\ orch' = "pause"
    /\ UNCHANGED <<NotControl, pc, request_resume, request_cancel, finished_signal,
                   exit_status, processes, queue_in, queue_out, filler, tree, checksums,
                   dirs_todo>>


\* A controller that resumes the workers although the pause was cancelled and
\* _process_killer runs: C16 does not hold of it
PauseResumeWhileKilling ==
    /\ orch \in {"pause", "kill"}
    /\ request_resume
    /\ request_resume' = FALSE
    /\ paused' = FALSE
    /\ IF pc \in PoolStages
       THEN control_value' = PROCESS_CONTROL_WORK /\ orch' = "check"
       ELSE orch' = "none" /\ UNCHANGED control_value
    /\ UNCHANGED <<NotControl, pc, request_pause, request_cancel, finished_signal,
                   exit_status, processes, queue_in, queue_out, filler, tree, checksums,
                   dirs_todo>>

\* A _pause that looks at request_resume first: C32 does not hold of it
PauseResumeFirst ==
    /\ orch = "pause"
    /\ request_resume
    /\ request_resume' = FALSE
    /\ paused' = FALSE
    /\ IF pc \in PoolStages
       THEN control_value' = PROCESS_CONTROL_WORK /\ orch' = "check"
       ELSE orch' = "none" /\ UNCHANGED control_value
    /\ UNCHANGED <<NotControl, pc, request_pause, request_cancel, finished_signal,
                   exit_status, processes, queue_in, queue_out, filler, tree, checksums,
                   dirs_todo>>

\* _pause returns True: request_resume was set and request_cancel was not
PauseResume ==
    /\ orch = "pause"
    /\ request_resume /\ ~request_cancel
    /\ request_resume' = FALSE
    /\ paused' = FALSE
    /\ IF pc \in PoolStages
       THEN control_value' = PROCESS_CONTROL_WORK /\ orch' = "check"
       ELSE orch' = "none" /\ UNCHANGED control_value
    /\ UNCHANGED <<NotControl, pc, request_pause, request_cancel, finished_signal,
                   exit_status, processes, queue_in, queue_out, filler, tree, checksums,
                   dirs_todo>>

\* _pause returns False: request_cancel was set during the pause
PauseCancel ==
    /\ orch = "pause"
    /\ request_cancel
    /\ IF pc \in PoolStages
       THEN /\ BeginKill
            /\ UNCHANGED <<pc, request_pause, request_resume, request_cancel, paused,
                           finished_signal, exit_status, processes, queue_in, queue_out,
                           tree, checksums, dirs_todo>>
       ELSE Exit(EXIT_CODE_CANCELED)
    /\ UNCHANGED NotControl

\* _process_killer, __queue_cleaner: the results waiting in the queue are dropped
KillerClean ==
    /\ pc \in TreePools \cup ChecksumPools
    /\ orch = "kill"
    /\ queue_out # {}
    /\ queue_out' = {}
    /\ UNCHANGED <<NotControl, pc, request_pause, request_resume, request_cancel, paused,
                   finished_signal, exit_status, control_value, processes, queue_in,
                   filler, orch, tree, checksums, dirs_todo>>

\* _process_killer, one pass of its loop with a worker alive: every worker alive
\* is killed
KillerKill ==
    /\ pc \in PoolStages
    /\ orch = "kill"
    /\ \E w \in DOMAIN processes : Alive(w) /\ ~processes[w].killed
    /\ processes' = [w \in DOMAIN processes |->
                        IF Alive(w) THEN [processes[w] EXCEPT !.killed = TRUE]
                        ELSE processes[w]]
    /\ UNCHANGED <<NotControl, pc, request_pause, request_resume, request_cancel, paused,
                   finished_signal, exit_status, control_value, queue_in, queue_out,
                   filler, orch, tree, checksums, dirs_todo>>

\* A _process_killer that returns after its first pass, whoever is alive: C9
\* does not hold of it
KillerDoneAtOnce ==
    /\ pc \in PoolStages
    /\ orch = "kill"
    /\ Exit(EXIT_CODE_CANCELED)
    /\ UNCHANGED NotControl

\* _process_killer, the pass of its loop that finds no worker alive, and
\* _exit(EXIT_CODE_CANCELED) after it
KillerDone ==
    /\ pc \in PoolStages
    /\ orch = "kill"
    /\ AllExited
    /\ Exit(EXIT_CODE_CANCELED)
    /\ UNCHANGED NotControl


-----------------------------------------------------------------------------
(* Backupper.start_backup *)

\* The start of one of the loops start_backup runs itself (stages 5 and 8)
StartLoop(stage, todo) ==
    /\ pc' = stage
    /\ orch' = "none"
    /\ dirs_todo' = todo
    /\ queue_in' = <<>> /\ queue_out' = {}
    /\ tree' = EmptyTree /\ checksums' = EmptyMap
    /\ control_value' = PROCESS_CONTROL_WORK
    /\ processes' = <<>>
    /\ filler' = NoFiller

Flags == <<request_pause, request_resume, request_cancel, paused, finished_signal,
           exit_status>>

PoolFinished(stage) == pc = stage /\ orch = "check" /\ AllExited /\ queue_out = {}

\* The stages of a run, the optional stage 8 not counted
StagesTotalWithoutTree == 5 + (IF cfg.delete_data THEN 1 ELSE 0)
                            + (IF cfg.create_empty_dirs THEN 1 ELSE 0)

StagesTotal == 5 + (IF cfg.delete_data THEN 1 ELSE 0)
                 + (IF cfg.create_empty_dirs THEN 1 ELSE 0)
                 + (IF cfg.generate_tree THEN 1 ELSE 0)

\* start_backup up to the start of the walkers of the input tree
StartBackup ==
    /\ pc \in {"idle", "done"}
    /\ runs < MaxRuns
    /\ runs' = runs + 1
    /\ request_pause' = FALSE /\ request_resume' = FALSE /\ request_cancel' = FALSE
    /\ paused' = FALSE
    /\ stats' = ZeroStats
    /\ stages_total' = StagesTotal
    /\ stage_current' = 1
    /\ fs' = IF exists(fs, output_dir) THEN fs ELSE makedirs(fs, output_dir).fs
    /\ hist' = [fs_start |-> fs, cancel |-> FALSE, copied |-> {}, digested |-> {},
                created |-> {}, prev_manifest |-> manifest,
                prev_status |-> IF hist.validate THEN -1 ELSE exit_status,
                pause |-> FALSE, validate |-> FALSE, match |-> {}, not_match |-> {},
                not_exist |-> {}]
    /\ LET seeds == GenerateTreeSeeds(fs', input_entries, TRUE, {})
       IN  /\ skipped_entries_abs' = seeds.skipped
           /\ pc' = "tree_in"
           /\ queue_in' = SeqOf(seeds.dirs)
           /\ queue_out' = seeds.parsed
    /\ tree' = EmptyTree /\ checksums' = EmptyMap
    /\ control_value' = PROCESS_CONTROL_WORK
    /\ processes' = NewProcesses(MaxCpu)
    /\ filler' = NoFiller
    /\ orch' = "check"
    /\ dirs_todo' = {}
    /\ input_tree' = EmptyTree /\ output_tree' = EmptyTree
    /\ checksums_input' = EmptyMap /\ checksums_output_parsed' = EmptyMap
    /\ checksums_output' = EmptyMap
    /\ UNCHANGED <<call, cfg, input_entries, manifest, finished_signal, exit_status>>

\* Stage 1, after the input tree: the walkers of the output tree are started
FinishInputTree ==
    /\ PoolFinished("tree_in")
    /\ input_tree' = tree
    /\ StartTreePool("tree_out", fs, (output_dir :> FALSE), FALSE, {output_dir})
    /\ UNCHANGED <<call, cfg, input_entries, fs, manifest, runs, stage_current, stages_total,
                   stats, skipped_entries_abs, output_tree, checksums_input,
                   checksums_output_parsed, checksums_output, hist, Flags>>

\* Stage 2 begins: the checksums of the input files
FinishOutputTree ==
    /\ PoolFinished("tree_out")
    /\ output_tree' = tree
    /\ stage_current' = stage_current + 1
    /\ StartChecksumPool("sums_in", input_tree.files, EmptyMap)
    /\ UNCHANGED <<call, cfg, input_entries, fs, manifest, runs, stages_total, stats, input_tree,
                   skipped_entries_abs, checksums_input, checksums_output_parsed,
                   checksums_output, hist, Flags>>

\* Stage 3 begins: the checksums file is parsed unless recalculate_checksum, and
\* the checksums of the other output files are calculated
FinishInputChecksums ==
    /\ PoolFinished("sums_in")
    /\ checksums_input' = checksums
    /\ stage_current' = stage_current + 1
    /\ checksums_output_parsed' =
          IF ~cfg.recalculate_checksum
          THEN parse_checksums_from_file(fs, manifest, checksum_file_out, output_dir)
          ELSE EmptyMap
    /\ StartChecksumPool("sums_out", output_tree.files, checksums_output_parsed')
    /\ UNCHANGED <<call, cfg, input_entries, fs, manifest, runs, stages_total, stats, input_tree,
                   skipped_entries_abs, output_tree, checksums_output, hist, Flags>>

\* Stage 6 begins
BeginCopy(stage) ==
    /\ stage_current' = stage + 1
    /\ StartFilledPool("copy", Pairs(input_tree.files),
                       min(Cardinality(DOMAIN input_tree.files), MaxCpu))

\* Stage 5 begins when create_empty_dirs, stage 6 otherwise
BeginEmptyDirs(stage) ==
    IF cfg.create_empty_dirs
    THEN /\ stage_current' = stage + 1
         /\ StartLoop("mkdirs", {d \in DOMAIN input_tree.dirs : input_tree.dirs[d].empty})
    ELSE BeginCopy(stage)

\* The end of stage 3: the parsed checksums are merged over the calculated ones;
\* stage 4 begins when delete_data
FinishOutputChecksums ==
    /\ PoolFinished("sums_out")
    /\ checksums_output' = Update(checksums, checksums_output_parsed)
    /\ IF cfg.delete_data
       THEN /\ stage_current' = stage_current + 1
            /\ StartFilledPool("delete", DeleteItems(output_tree),
                               min(Cardinality(DOMAIN output_tree.files), MaxCpu))
       ELSE BeginEmptyDirs(stage_current)
    /\ UNCHANGED <<call, cfg, input_entries, fs, manifest, runs, stages_total, stats, input_tree,
                   skipped_entries_abs, output_tree, checksums_input,
                   checksums_output_parsed, hist, Flags>>

\* The end of stage 4
FinishDelete ==
    /\ PoolFinished("delete")
    /\ BeginEmptyDirs(stage_current)
    /\ UNCHANGED <<call, cfg, input_entries, fs, manifest, runs, stages_total, stats, input_tree,
                   skipped_entries_abs, output_tree, checksums_input,
                   checksums_output_parsed, checksums_output, hist, Flags>>


\* The polls at the end of a turn of a loop that returns EXIT_CODE_CANCELED on
\* cancel with no call of _exit
LoopPollReturning(todo) ==
    IF request_cancel
    THEN /\ exit_status' = EXIT_CODE_CANCELED
         /\ pc' = "done"
         /\ orch' = "none"
         /\ dirs_todo' = {}
         /\ UNCHANGED <<request_pause, request_resume, request_cancel, paused,
                        finished_signal, control_value, processes, queue_in, queue_out,
                        filler, tree, checksums>>
    ELSE IF request_pause
    THEN /\ request_pause' = FALSE
         /\ paused' = TRUE
         /\ orch' = "pause"
         /\ dirs_todo' = todo
         /\ UNCHANGED <<pc, request_resume, request_cancel, finished_signal, exit_status,
                        control_value, processes, queue_in, queue_out, filler, tree,
                        checksums>>
    ELSE /\ dirs_todo' = todo
         /\ UNCHANGED <<pc, orch, Flags, control_value, processes, queue_in, queue_out,
                        filler, tree, checksums>>

\* The polls at the end of a turn of the loops of stages 5 and 8: cancel, then
\* pause
LoopPoll(todo) ==
    IF request_cancel THEN Exit(EXIT_CODE_CANCELED)
    ELSE IF request_pause
    THEN /\ request_pause' = FALSE
         /\ paused' = TRUE
         /\ orch' = "pause"
         /\ dirs_todo' = todo
         /\ UNCHANGED <<pc, request_resume, request_cancel, finished_signal, exit_status,
                        control_value, processes, queue_in, queue_out, filler, tree,
                        checksums>>
    ELSE /\ dirs_todo' = todo
         /\ UNCHANGED <<pc, orch, Flags, control_value, processes, queue_in, queue_out,
                        filler, tree, checksums>>

\* Stage 5, one turn of the loop for an empty directory of the input tree
CreateEmptyDir ==
    /\ pc = "mkdirs"
    /\ orch = "none"
    /\ dirs_todo # {}
    /\ LET path_relative == CHOOSE d \in dirs_todo : TRUE IN
          LET out_path_abs == join(output_dir, path_relative)
              made == makedirs(fs, out_path_abs)
              root == input_tree.dirs[path_relative].root
          IN  IF exists(fs, out_path_abs)
              THEN /\ LoopPoll(dirs_todo \ {path_relative})
                   /\ UNCHANGED <<fs, stats, hist>>
              ELSE IF made.ok
              THEN /\ fs' = made.fs
                   /\ stats' = AddStats(stats, 0, 0, 0, 0, 0, 0, 1, 0, 0, 0)
                   /\ hist' = [hist EXCEPT !.created = @ \cup CreatedSources(fs, made.fs, root)]
                   /\ LoopPoll(dirs_todo \ {path_relative})
              ELSE /\ stats' = AddStats(stats, 0, 0, 0, 0, 0, 0, 0, 1, 0, 0)
                   /\ dirs_todo' = dirs_todo \ {path_relative}
                   /\ UNCHANGED <<fs, hist, pc, orch, Flags, control_value, processes,
                                  queue_in, queue_out, filler, tree, checksums>>
    /\ UNCHANGED <<call, cfg, input_entries, manifest, runs, stage_current, stages_total,
                   input_tree, skipped_entries_abs, output_tree, checksums_input,
                   checksums_output_parsed, checksums_output>>

\* The end of stage 5
FinishEmptyDirs ==
    /\ pc = "mkdirs"
    /\ orch = "none"
    /\ dirs_todo = {}
    /\ BeginCopy(stage_current)
    /\ UNCHANGED <<call, cfg, input_entries, fs, manifest, runs, stages_total, stats, input_tree,
                   skipped_entries_abs, output_tree, checksums_input,
                   checksums_output_parsed, checksums_output, hist, Flags>>

\* The paths DisplayablePath.make_tree(output_dir) yields
make_tree(f) == Below(f, output_dir)

\* The end of stage 7 and what follows it: the checksums file is written, then
\* stage 8 begins when generate_tree, and the run ends otherwise
WriteChecksums(f, sums) ==
    LET recs == [k \in DOMAIN sums |-> sums[k].checksum]
        written == Put(Remove(f, {checksum_file_out}), checksum_file_out,
                       File(ManifestData(recs)))
        opened == Put(Remove(written, {tree_file}), tree_file, File(TreeData(0)))
    IN  /\ manifest' = recs
        /\ IF cfg.generate_tree
           THEN /\ stage_current' = stage_current + 1
                /\ fs' = opened
                /\ StartLoop("tree_txt", make_tree(opened))
                /\ UNCHANGED Flags
           ELSE /\ fs' = written
                /\ Exit(EXIT_CODE_SUCCESSFULLY)
                /\ UNCHANGED stage_current

\* The end of stage 6 and stage 7 up to its pool (recalculate_checksum) or up to
\* its end
FinishCopy ==
    /\ PoolFinished("copy")
    /\ LET removed == Remove(fs, {checksum_file_out})
       IN  IF cfg.recalculate_checksum
           THEN /\ fs' = removed
                /\ manifest' = EmptyMap
                /\ stage_current' = stage_current + 1
                /\ StartTreePool("tree_final", removed, (output_dir :> FALSE), FALSE,
                                 {output_dir})
                /\ UNCHANGED <<checksums_output, Flags>>
           ELSE /\ checksums_output' = Update(checksums_output, checksums_input)
                /\ WriteChecksums(removed, checksums_output')
    /\ UNCHANGED <<call, cfg, input_entries, runs, stages_total, stats, input_tree,
                   skipped_entries_abs, output_tree, checksums_input,
                   checksums_output_parsed, hist>>

\* Stage 7 with recalculate_checksum, after the output tree is generated again
FinishFinalTree ==
    /\ PoolFinished("tree_final")
    /\ output_tree' = tree
    /\ StartChecksumPool("sums_final", tree.files, EmptyMap)
    /\ UNCHANGED <<call, cfg, input_entries, fs, manifest, runs, stage_current, stages_total,
                   stats, input_tree, skipped_entries_abs, checksums_input,
                   checksums_output_parsed, checksums_output, hist, Flags>>

\* Stage 7 with recalculate_checksum, after the checksums are calculated again
FinishFinalChecksums ==
    /\ PoolFinished("sums_final")
    /\ checksums_output' = checksums
    /\ WriteChecksums(fs, checksums)
    /\ UNCHANGED <<call, cfg, input_entries, runs, stages_total, stats, input_tree,
                   skipped_entries_abs, output_tree, checksums_input,
                   checksums_output_parsed, hist>>

\* Stage 8, one turn of the loop: a line of tree.txt is written
WriteTreeLine ==
    /\ pc = "tree_txt"
    /\ orch = "none"
    /\ dirs_todo # {}
    /\ LET path == CHOOSE q \in dirs_todo : TRUE IN
          /\ fs' = Put(fs, tree_file, File(fs[tree_file].data + 1))
          /\ LoopPoll(dirs_todo \ {path})
    /\ UNCHANGED <<call, cfg, input_entries, manifest, runs, stage_current, stages_total, stats,
                   input_tree, skipped_entries_abs, output_tree, checksums_input,
                   checksums_output_parsed, checksums_output, hist>>

\* The end of stage 8 and of the run
FinishTree ==
    /\ pc = "tree_txt"
    /\ orch = "none"
    /\ dirs_todo = {}
    /\ Exit(EXIT_CODE_SUCCESSFULLY)
    /\ UNCHANGED NotControl


-----------------------------------------------------------------------------
(* Backupper.validate *)

\* A validate that goes on without a checksums file: C15 does not hold of it
ManifestAssumed(f) == TRUE

\* validate, stage 1: the checksums file is there
ManifestFound(f) == exists(f, checksum_file_out)

\* GUIHandler.validation_start and validate up to the start of the walkers of
\* the mirror tree; without a checksums file validate raises, and ends with
\* _exit(EXIT_CODE_ERROR)
Validate ==
    /\ pc \in {"idle", "done"}
    /\ runs < MaxRuns
    /\ isdir(fs, output_dir)
    /\ runs' = runs + 1
    /\ stats' = ZeroStats
    /\ stages_total' = 4
    /\ hist' = [NoHist EXCEPT !.fs_start = fs, !.validate = TRUE,
                              !.prev_status = IF pc = "done" /\ ~hist.validate
                                              THEN exit_status ELSE -1]
    /\ input_tree' = EmptyTree /\ output_tree' = EmptyTree
    /\ skipped_entries_abs' = {}
    /\ checksums_input' = EmptyMap /\ checksums_output' = EmptyMap
    /\ IF ~ManifestFound(fs)
       THEN /\ stage_current' = 1
            /\ checksums_output_parsed' = EmptyMap
            /\ Exit(EXIT_CODE_ERROR)
       ELSE /\ request_pause' = FALSE /\ request_resume' = FALSE /\ request_cancel' = FALSE
            /\ paused' = FALSE
            /\ checksums_output_parsed' =
                  parse_checksums_from_file(fs, manifest, checksum_file_out, output_dir)
            /\ stage_current' = 2
            /\ StartTreePool("v_tree", fs, (output_dir :> FALSE), FALSE, {output_dir})
            /\ UNCHANGED <<finished_signal, exit_status>>
    /\ UNCHANGED <<call, cfg, input_entries, fs, manifest>>

\* validate, stage 3 begins: the checksums of the files of the mirror tree
FinishValidateTree ==
    /\ PoolFinished("v_tree")
    /\ output_tree' = tree
    /\ stage_current' = stage_current + 1
    /\ StartChecksumPool("v_sums", tree.files, EmptyMap)
    /\ UNCHANGED <<call, cfg, input_entries, fs, manifest, runs, stages_total, stats,
                   input_tree, skipped_entries_abs, checksums_input,
                   checksums_output_parsed, checksums_output, hist, Flags>>

\* validate, stage 4 begins, by a validation that saves the calculated checksums
FinishValidateChecksumsSaved ==
    /\ PoolFinished("v_sums")
    /\ checksums_output' = checksums
    /\ stage_current' = stage_current + 1
    /\ StartLoop("v_compare", DOMAIN checksums)
    /\ manifest' = checksums
    /\ fs' = Put(fs, checksum_file_out, File(0))
    /\ UNCHANGED <<call, cfg, input_entries, runs, stages_total, stats,
                   input_tree, skipped_entries_abs, output_tree, checksums_input,
                   checksums_output_parsed, hist, Flags>>

\* validate, stage 4 begins
FinishValidateChecksums ==
    /\ PoolFinished("v_sums")
    /\ checksums_output' = checksums
    /\ stage_current' = stage_current + 1
    /\ StartLoop("v_compare", DOMAIN checksums)
    /\ UNCHANGED <<call, cfg, input_entries, fs, manifest, runs, stages_total, stats,
                   input_tree, skipped_entries_abs, output_tree, checksums_input,
                   checksums_output_parsed, hist, Flags>>

\* validate, stage 4: one turn of the loop over the calculated checksums, or
\* the end of the loop and of the run.  The checksums file itself and a file
\* with no parsed checksum end the turn before the requests are read.
CompareChecksums ==
    /\ pc = "v_compare"
    /\ orch = "none"
    /\ IF dirs_todo = {}
       THEN Exit(EXIT_CODE_SUCCESSFULLY) /\ UNCHANGED <<stats, hist>>
       ELSE LET filepath_rel == CHOOSE k \in dirs_todo : TRUE
                checksum == checksums_output[filepath_rel].checksum
                filepath_abs == join(output_dir, filepath_rel)
                known == filepath_rel \in DOMAIN checksums_output_parsed
                rest == dirs_todo \ {filepath_rel}
                go_on == /\ dirs_todo' = rest
                         /\ UNCHANGED <<pc, orch, Flags, control_value, processes, queue_in,
                                        queue_out, filler, tree, checksums>>
            IN  IF exists(fs, filepath_abs) /\ exists(fs, checksum_file_out)
                   /\ filepath_abs = checksum_file_out
                THEN go_on /\ UNCHANGED <<stats, hist>>
                ELSE IF ~known
                THEN /\ stats' = [stats EXCEPT !.validate_not_exist = @ + 1]
                     /\ hist' = [hist EXCEPT !.not_exist = @ \cup {filepath_rel}]
                     /\ go_on
                ELSE IF checksums_output_parsed[filepath_rel].checksum = checksum
                THEN /\ stats' = [stats EXCEPT !.validate_match = @ + 1]
                     /\ hist' = [hist EXCEPT !.match = @ \cup {filepath_rel}]
                     /\ LoopPoll(rest)
                ELSE /\ stats' = [stats EXCEPT !.validate_not_match = @ + 1]
                     /\ hist' = [hist EXCEPT !.not_match = @ \cup {filepath_rel}]
                     /\ LoopPoll(rest)
    /\ UNCHANGED <<call, cfg, input_entries, fs, manifest, runs, stage_current,
                   stages_total, input_tree, skipped_entries_abs, output_tree,
                   checksums_input, checksums_output_parsed, checksums_output>>

-----------------------------------------------------------------------------
(* GUIHandler: the requests of the user *)

Active == pc \notin {"idle", "done"}

\* backup_validation_start_stop while a backup is active: cancel is requested
GuiCancel ==
    /\ Active
    /\ ~request_cancel
    /\ request_cancel' = TRUE
    /\ hist' = [hist EXCEPT !.cancel = TRUE]
    /\ UNCHANGED <<call, cfg, input_entries, fs, manifest, pc, runs, request_pause, request_resume,
                   paused, stage_current, stages_total, stats, finished_signal, exit_status,
                   input_tree, skipped_entries_abs, output_tree, checksums_input,
                   checksums_output_parsed, checksums_output, control_value, processes,
                   queue_in, queue_out, filler, orch, tree, checksums, dirs_todo>>

\* backup_pause_resume while the backup is not paused: pause is requested (the
\* button is disabled during a validation)
GuiPause ==
    /\ Active /\ ~hist.validate
    /\ ~request_pause /\ ~request_resume /\ ~request_cancel
    /\ ~paused
    /\ request_pause' = TRUE
    /\ hist' = [hist EXCEPT !.pause = TRUE]
    /\ UNCHANGED <<call, cfg, input_entries, fs, manifest, pc, runs, request_resume,
                   request_cancel, paused, stage_current, stages_total, stats,
                   finished_signal, exit_status, input_tree, skipped_entries_abs,
                   output_tree, checksums_input, checksums_output_parsed, checksums_output,
                   control_value, processes, queue_in, queue_out, filler, orch, tree,
                   checksums, dirs_todo>>

\* backup_pause_resume while the backup is paused: resume is requested
GuiResume ==
    /\ Active
    /\ ~request_pause /\ ~request_resume /\ ~request_cancel
    /\ paused
    /\ request_resume' = TRUE
    /\ UNCHANGED <<call, cfg, input_entries, fs, manifest, pc, runs, request_pause,
                   request_cancel, paused, stage_current, stages_total, stats,
                   finished_signal, exit_status, input_tree, skipped_entries_abs,
                   output_tree, checksums_input, checksums_output_parsed, checksums_output,
                   control_value, processes, queue_in, queue_out, filler, orch, tree,
                   checksums, dirs_todo, hist>>

-----------------------------------------------------------------------------
(* Specifications *)

\* The steps of a backup no request of the user is needed for
Backup ==
    \/ StartBackup
    \/ FillerPut
    \/ \E w \in DOMAIN processes : WorkerControl(w)
    \/ \E w \in DOMAIN processes : WorkerGet(w)
    \/ \E w \in DOMAIN processes : WorkerTimeout(w)
    \/ \E w \in DOMAIN processes : WorkerProcess(w)
    \/ PoolPoll
    \/ ControllerIdle
    \/ FinishInputTree
    \/ FinishOutputTree
    \/ FinishInputChecksums
    \/ FinishOutputChecksums
    \/ FinishDelete
    \/ CreateEmptyDir
    \/ FinishEmptyDirs
    \/ FinishCopy
    \/ FinishFinalTree
    \/ FinishFinalChecksums
    \/ WriteTreeLine
    \/ FinishTree

\* The requests of the user and the steps that answer them
Requests ==
    \/ GuiCancel
    \/ GuiPause
    \/ GuiResume
    \/ \E w \in DOMAIN processes : WorkerPauseLoop(w)
    \/ \E w \in DOMAIN processes : ProcessKilled(w)
    \/ ControllerCancel
    \/ ControllerPause
    \/ PauseResume
    \/ PauseCancel
    \/ KillerClean
    \/ KillerKill
    \/ KillerDone

\* The steps of a validation
Validation ==
    \/ Validate
    \/ FinishValidateTree
    \/ FinishValidateChecksums
    \/ CompareChecksums

Next == Backup \/ Validation \/ Requests

\* Backups the user leaves alone, over every configuration
Spec == Init /\ [][Backup]_vars

\* Backups and validations the user leaves alone, over every configuration
SpecValidate == Init /\ [][Backup \/ Validation]_vars

\* The steps of worker w, of the orchestrator thread and of the filler thread
WorkerIds == 1..2

Worker(w) == /\ w \in DOMAIN processes
             /\ \/ WorkerControl(w)
                \/ WorkerPauseLoop(w)
                \/ WorkerGet(w)
                \/ WorkerTimeout(w)
                \/ WorkerProcess(w)

Reaped(w) == w \in DOMAIN processes /\ ProcessKilled(w)

Orchestrator ==
    \/ PoolPoll \/ ControllerIdle \/ ControllerCancel \/ ControllerPause
    \/ PauseResume \/ PauseCancel \/ KillerClean \/ KillerKill \/ KillerDone
    \/ FinishInputTree \/ FinishOutputTree \/ FinishInputChecksums
    \/ FinishOutputChecksums \/ FinishDelete \/ CreateEmptyDir \/ FinishEmptyDirs
    \/ FinishCopy \/ FinishFinalTree \/ FinishFinalChecksums \/ WriteTreeLine
    \/ FinishTree \/ FinishValidateTree \/ FinishValidateChecksums \/ CompareChecksums

\* Every process and thread of a run keeps running; the user owes nothing
Fairness ==
    /\ WF_vars(Orchestrator)
    /\ WF_vars(FillerPut)
    /\ \A w \in WorkerIds : WF_vars(Worker(w)) /\ WF_vars(Reaped(w))

RequestConfigs == {c \in ConfigChoices : /\ c.workload_profile = "insane"
                                         /\ c.delete_data /\ ~c.delete_skipped
                                         /\ c.create_empty_dirs}

InitRequests == InitWith(RequestConfigs, {(<<"s">> :> FALSE) @@ (<<"s", "d">> :> TRUE)},
                         {m \in MirrorChoices : m.fs = EmptyMap})
                /\ call = NoCall

\* Backups with the requests of the user
SpecRequests == InitRequests /\ [][Next]_vars

LiveConfigs == {c \in RequestConfigs : c.generate_tree /\ c.recalculate_checksum}

InitLive == InitWith(LiveConfigs, {(<<"s">> :> FALSE) @@ (<<"s", "d">> :> TRUE)},
                     {m \in MirrorChoices : m.fs = EmptyMap})
            /\ call = NoCall

\* Backups with the requests of the user, every process scheduled fairly
SpecLive == InitLive /\ [][Backup \/ Requests]_vars /\ Fairness

-----------------------------------------------------------------------------
(* Functions of the program applied on their own *)

\* The program at rest, for the specifications that apply one function
Rest == InitWith(LiveConfigs, {(<<"s">> :> FALSE)}, {m \in MirrorChoices : m.fs = EmptyMap})

RestVars == <<cfg, input_entries, fs, manifest, pc, runs, request_pause, request_resume,
              request_cancel, paused, stage_current, stages_total, stats, finished_signal,
              exit_status, input_tree, skipped_entries_abs, output_tree, checksums_input,
              checksums_output_parsed, checksums_output, control_value, processes,
              queue_in, queue_out, filler, orch, tree, checksums, dirs_todo, hist>>

\* Backups of the whole input /s with the requests of the user
InitWhole == Rest /\ call = NoCall

SpecWhole == InitWhole /\ [][Next]_vars

(* The checksums file, character by character: a string is a sequence of
   one-character strings *)

HexDigits == {"0", "1", "2", "3", "4", "5", "6", "7", "8", "9",
              "a", "b", "c", "d", "e", "f", "A", "B", "C", "D", "E", "F"}

\* Length of the hexadecimal digest of the algorithm
DigestLength(checksum_alg) == CASE checksum_alg = "md5" -> 32
                                [] checksum_alg = "sha256" -> 64
                                [] checksum_alg = "sha512" -> 128

\* str.replace(ch, "")
RECURSIVE Without(_, _)
Without(str, ch) == IF str = <<>> THEN <<>>
                    ELSE IF Head(str) = ch THEN Without(Tail(str), ch)
                    ELSE <<Head(str)>> \o Without(Tail(str), ch)

RECURSIVE LStrip(_)
LStrip(str) == IF str # <<>> /\ Head(str) = " " THEN LStrip(Tail(str)) ELSE str

RECURSIVE RStrip(_)
RStrip(str) == IF str # <<>> /\ str[Len(str)] = " "
               THEN RStrip(SubSeq(str, 1, Len(str) - 1)) ELSE str

\* str.strip(): the space is the only white space of the modelled characters
Strip(str) == RStrip(LStrip(str))

\* str.split(ch): the sequence of the parts
RECURSIVE Split(_, _, _)
Split(str, ch, part) ==
    IF str = <<>> THEN <<part>>
    ELSE IF Head(str) = ch THEN <<part>> \o Split(Tail(str), ch, <<>>)
    ELSE Split(Tail(str), ch, Append(part, Head(str)))

\* ch.join(parts)
RECURSIVE Join(_, _)
Join(parts, ch) == IF parts = <<>> THEN <<>>
                   ELSE IF Len(parts) = 1 THEN parts[1]
                   ELSE parts[1] \o <<ch>> \o Join(Tail(parts), ch)

\* posixpath.normpath, the loop over the components
RECURSIVE NormComps(_, _, _)
NormComps(comps, new_comps, initial_slashes) ==
    IF comps = <<>> THEN new_comps
    ELSE LET comp == Head(comps)
             n == Len(new_comps)
         IN  IF comp = <<>> \/ comp = <<".">>
             THEN NormComps(Tail(comps), new_comps, initial_slashes)
             ELSE IF \/ comp # <<".", ".">>
                     \/ (initial_slashes = 0 /\ n = 0)
                     \/ (n > 0 /\ new_comps[n] = <<".", ".">>)
             THEN NormComps(Tail(comps), Append(new_comps, comp), initial_slashes)
             ELSE IF n > 0
             THEN NormComps(Tail(comps), SubSeq(new_comps, 1, n - 1), initial_slashes)
             ELSE NormComps(Tail(comps), new_comps, initial_slashes)

\* os.path.normpath of a string
normpath(path) ==
    IF path = <<>> THEN <<".">>
    ELSE LET initial_slashes ==
                 IF Head(path) # "/" THEN 0
                 ELSE IF Len(path) >= 2 /\ path[2] = "/" /\ ~(Len(path) >= 3 /\ path[3] = "/")
                 THEN 2 ELSE 1
             joined == Join(NormComps(Split(path, "/", <<>>), <<>>, initial_slashes), "/")
             whole == [i \in 1..initial_slashes |-> "/"] \o joined
         IN  IF whole = <<>> THEN <<".">> ELSE whole

\* parse_checksums_from_file, the body of the loop for one line: the record
\* <<path, checksum>> it adds, or <<>>
ParseLine(line, checksum_alg) ==
    LET stripped == Strip(Without(Without(line, "\n"), "\r"))
        line_splitted == Split(stripped, "*", <<>>)
        checksum == Strip(line_splitted[1])
        filepath == Join(Tail(line_splitted), "*")
    IN  IF stripped = <<>> THEN <<>>
        ELSE IF Head(stripped) \notin HexDigits THEN <<>>
        ELSE IF Len(line_splitted) <= 1 THEN <<>>
        ELSE IF Len(checksum) # DigestLength(checksum_alg) THEN <<>>
        \* the loop over the characters of the checksum skips no line
        ELSE IF filepath = <<>> THEN <<>>
        ELSE <<normpath(filepath), checksum>>

\* parse_checksums_from_file, the loop over the lines of the file
RECURSIVE ParseLines(_, _, _)
ParseLines(lines, checksum_alg, sums) ==
    IF lines = <<>> THEN sums
    ELSE LET rec == ParseLine(Head(lines), checksum_alg)
         IN  ParseLines(Tail(lines), checksum_alg,
                        IF rec = <<>> THEN sums ELSE Put(sums, rec[1], rec[2]))

\* start_backup, stage 7: the line written for a record
WriteLine(checksum, path_relative) == checksum \o <<" ", "*">> \o path_relative \o <<"\n">>

\* start_backup, stage 7: the lines written for the records
WriteLines(recs) == [i \in 1..Len(SeqOf(DOMAIN recs)) |->
                        WriteLine(recs[SeqOf(DOMAIN recs)[i]], SeqOf(DOMAIN recs)[i])]

(* parse_checksums_from_file applied to the file start_backup writes *)

\* The characters of the paths of the records
PathChars == {"a", " ", "*", "/", "."}
MaxPathLen == 3
MaxRecords == 2

RecordPaths == UNION {[1..n -> PathChars] : n \in 1..MaxPathLen}

\* Hexadecimal digests of the length of the algorithm
RecordDigests == {[i \in 1..DigestLength("md5") |-> "a"],
                  [i \in 1..DigestLength("md5") |-> IF i = 1 THEN "0" ELSE "f"]}

\* The dictionary of a sequence of records: a later record replaces an earlier
\* one of the same path
RECURSIVE RecordsOf(_)
RecordsOf(seq) == IF seq = <<>> THEN EmptyMap
                  ELSE LET last == seq[Len(seq)]
                       IN  Put(RecordsOf(SubSeq(seq, 1, Len(seq) - 1)), last[1], last[2])

RecordSets == {RecordsOf(seq) :
                  seq \in UNION {[1..n -> RecordPaths \X RecordDigests] : n \in 1..MaxRecords}}

InitManifest ==
    /\ Rest
    /\ call \in {[op |-> "manifest", step |-> "records", recs |-> r, lines |-> <<>>,
                  parsed |-> EmptyMap] : r \in RecordSets}

\* start_backup, stage 7: the records are written, one line each
WriteChecksumsFile ==
    /\ call.op = "manifest" /\ call.step = "records"
    /\ call' = [call EXCEPT !.step = "written", !.lines = WriteLines(call.recs)]
    /\ UNCHANGED RestVars

\* parse_checksums_from_file reads the lines back
ParseChecksumsFile ==
    /\ call.op = "manifest" /\ call.step = "written"
    /\ call' = [call EXCEPT !.step = "parsed",
                            !.parsed = ParseLines(call.lines, "md5", EmptyMap)]
    /\ UNCHANGED RestVars

SpecManifest == InitManifest /\ [][WriteChecksumsFile \/ ParseChecksumsFile]_vars

(* parse_checksums_from_file applied to a file of any lines *)

\* Parts before the asterisk: a digest, one with a letter that is no
\* hexadecimal digit inside, one that begins with such a letter, a short one
LineDigests == {[i \in 1..DigestLength("md5") |-> "a"],
                [i \in 1..DigestLength("md5") |-> IF i = 2 THEN "g" ELSE "a"],
                [i \in 1..DigestLength("md5") |-> IF i = 1 THEN "g" ELSE "a"],
                [i \in 1..DigestLength("md5") - 1 |-> "a"]}

FileLines == {d \o sep \o path \o <<"\n">> :
                 d \in LineDigests, sep \in {<<" ", "*">>, <<"*">>},
                 path \in {<<"a">>, <<"b">>}}

InitParse ==
    /\ Rest
    /\ call \in {[op |-> "manifest", step |-> "written", recs |-> EmptyMap, lines |-> l,
                  parsed |-> EmptyMap] : l \in UNION {[1..n -> FileLines] : n \in 1..MaxRecords}}

SpecParse == InitParse /\ [][ParseChecksumsFile]_vars

(* Backupper.parse_input_entries applied to a list of entries.  The paths of
   the entries are modelled after strip and normpath, as sequences of segments *)

EntryPaths == {<<"x", "a">>, <<"y", "a">>, <<"x", "b">>, <<"z", "e">>}
MaxEntries == 3

\* The file system of the entries: /z/e does not exist
EntriesFS == (<<"x">> :> Dir) @@ (<<"x", "a">> :> File(1)) @@ (<<"x", "b">> :> Dir)
             @@ (<<"y">> :> Dir) @@ (<<"y", "a">> :> File(2)) @@ (<<"z">> :> Dir)

EntryLists == UNION {[1..n -> [path : EntryPaths, skip : BOOLEAN]] : n \in 1..MaxEntries}

\* parse_input_entries, the body of the loop for one entry: the exception
\* raised ("none" for none) and the dictionary after it
ParseInputEntry(entries, input_entry, f) ==
    LET input_path == input_entry.path
        skip_current == input_entry.skip
        input_path_rel == relpath(input_path, dirname(input_path))
    IN  IF \E existing_path \in DOMAIN entries :
               /\ relpath(existing_path, dirname(existing_path)) = input_path_rel
               /\ ~entries[existing_path] /\ ~skip_current
        THEN [raised |-> "Duplicated path", input_entries |-> entries]
        ELSE IF ~skip_current /\ ~exists(f, input_path)
        THEN [raised |-> "doesn't exists", input_entries |-> entries]
        ELSE [raised |-> "none", input_entries |-> Put(entries, input_path, skip_current)]

\* parse_input_entries, the loop over the entries of the configuration
RECURSIVE ParseInputEntries(_, _, _)
ParseInputEntries(input_paths, entries, f) ==
    IF input_paths = <<>> THEN [raised |-> "none", input_entries |-> entries]
    ELSE LET one == ParseInputEntry(entries, Head(input_paths), f)
         IN  IF one.raised # "none" THEN one
             ELSE ParseInputEntries(Tail(input_paths), one.input_entries, f)

InitEntries ==
    /\ Rest
    /\ call \in {[op |-> "entries", step |-> "configured", input_paths |-> l,
                  raised |-> "none", input_entries |-> EmptyMap] : l \in EntryLists}

\* GUIHandler.backup_start up to the call of parse_input_entries: an exception
\* is shown and the backup is not started
parse_input_entries ==
    /\ call.op = "entries" /\ call.step = "configured"
    /\ LET res == ParseInputEntries(call.input_paths, EmptyMap, EntriesFS)
       IN  call' = [call EXCEPT !.step = "parsed", !.raised = res.raised,
                                !.input_entries = res.input_entries]
    /\ UNCHANGED RestVars

SpecEntries == InitEntries /\ [][parse_input_entries]_vars

(* delete_files applied to one entry of the mirror *)

\* The mirror the entries are in
DeleteFS == (output_dir :> Dir) @@ (join(output_dir, <<"s">>) :> Dir)
            @@ (join(output_dir, <<"s", "a">>) :> File(1))
            @@ (join(output_dir, <<"b">>) :> File(2))

\* The entries of the mirror's tree the filler can put
DeleteEntries == {[type |-> PATH_FILE, rel |-> <<"s", "a">>, root |-> output_dir, empty |-> FALSE],
                  [type |-> PATH_FILE, rel |-> <<"b">>, root |-> output_dir, empty |-> FALSE],
                  [type |-> PATH_DIR, rel |-> <<"s">>, root |-> output_dir, empty |-> FALSE],
                  [type |-> PATH_UNKNOWN, rel |-> <<"s">>, root |-> output_dir, empty |-> FALSE],
                  [type |-> PATH_UNKNOWN, rel |-> <<"b">>, root |-> output_dir, empty |-> FALSE],
                  [type |-> PATH_UNKNOWN, rel |-> <<"z">>, root |-> output_dir, empty |-> FALSE]}

\* Input trees of the inputs /s and /b
DeleteInputTrees ==
    {[files |-> [rel \in fs_ |-> [root |-> <<>>]],
      dirs |-> [rel \in ds |-> [root |-> <<>>, empty |-> FALSE]],
      unknown |-> EmptyMap] :
         fs_ \in SUBSET {<<"s", "a">>, <<"b">>}, ds \in SUBSET {<<"s">>}}

\* Skipped entries of the configuration
DeleteSkipped == SUBSET {<<"x", "s">>, <<"x", "a">>, <<"y", "b">>}

InitDelete ==
    /\ Rest
    /\ call \in {[op |-> "delete", step |-> "queued", item |-> i, input_tree |-> t,
                  skipped_entries_abs |-> s, delete_skipped |-> d, fs |-> DeleteFS,
                  ok |-> 0, error |-> 0] :
                     i \in DeleteEntries, t \in DeleteInputTrees, s \in DeleteSkipped,
                     d \in BOOLEAN}

\* delete_files dequeues the entry and decides
delete_files ==
    /\ call.op = "delete" /\ call.step = "queued"
    /\ LET r == DeleteFilesItem(call.fs, call.item, call.input_tree,
                                {SplitAbs(p) : p \in call.skipped_entries_abs},
                                call.delete_skipped)
       IN  call' = [call EXCEPT !.step = "processed", !.fs = r.fs,
                                !.ok = r.ok, !.error = r.error]
    /\ UNCHANGED RestVars

SpecDelete == InitDelete /\ [][delete_files]_vars

(* is_path_relative_to applied to two lists of segments *)

Segments == {"a", "b"}
MaxSegments == 3

SegmentLists == UNION {[1..n -> Segments] : n \in 1..MaxSegments}

InitRelative ==
    /\ Rest
    /\ call \in {[op |-> "relative", step |-> "called", parent_path |-> p, child_path |-> c,
                  result |-> FALSE] : p \in SegmentLists, c \in SegmentLists}

\* is_path_relative_to returns
path_relative_to ==
    /\ call.op = "relative" /\ call.step = "called"
    /\ call' = [call EXCEPT !.step = "returned",
                            !.result = is_path_relative_to(call.parent_path, call.child_path)]
    /\ UNCHANGED RestVars

SpecRelative == InitRelative /\ [][path_relative_to]_vars

(* Two delete_files workers, each with an entry it has dequeued: the test of
   existence and the removal are two steps of a worker *)

RaceFS == (output_dir :> Dir) @@ (join(output_dir, <<"s">>) :> Dir)
          @@ (join(output_dir, <<"s", "a">>) :> File(1))
          @@ (join(output_dir, <<"s", "d">>) :> Dir)

\* A directory of the mirror's tree and an entry inside it
RaceOuter == {[type |-> PATH_DIR, rel |-> <<"s">>, root |-> output_dir, empty |-> FALSE]}
RaceInner == {[type |-> PATH_FILE, rel |-> <<"s", "a">>, root |-> output_dir, empty |-> FALSE],
              [type |-> PATH_DIR, rel |-> <<"s", "d">>, root |-> output_dir, empty |-> TRUE]}

RaceInputTrees ==
    {[files |-> [rel \in fs_ |-> [root |-> <<>>]],
      dirs |-> [rel \in ds |-> [root |-> <<>>, empty |-> FALSE]],
      unknown |-> EmptyMap] :
         fs_ \in SUBSET {<<"s", "a">>}, ds \in SUBSET {<<"s">>}}

InitRace ==
    /\ Rest
    /\ call \in {[op |-> "race", fs |-> RaceFS, input_tree |-> t, skipped_entries_abs |-> s,
                  delete_skipped |-> d, ok |-> 0, error |-> 0,
                  workers |-> <<[item |-> i, st |-> "dequeued"], [item |-> o, st |-> "dequeued"]>>] :
                     i \in RaceInner, o \in RaceOuter, t \in RaceInputTrees,
                     s \in SUBSET {<<"x", "s">>}, d \in BOOLEAN}

\* The worker tests os.path.exists and computes delete_flag
DeleteCheck(w) ==
    /\ call.op = "race" /\ call.workers[w].st = "dequeued"
    /\ LET item == call.workers[w].item
           go == /\ exists(call.fs, join(item.root, item.rel))
                 /\ DeleteFlag(item, call.input_tree,
                               {SplitAbs(p) : p \in call.skipped_entries_abs},
                               call.delete_skipped)
       IN  call' = [call EXCEPT !.workers[w].st = IF go THEN "deleting" ELSE "done"]
    /\ UNCHANGED RestVars

\* The worker removes the entry
DeleteRemove(w) ==
    /\ call.op = "race" /\ call.workers[w].st = "deleting"
    /\ LET r == DeleteEntry(call.fs, call.workers[w].item)
       IN  call' = [call EXCEPT !.workers[w].st = "done", !.fs = r.fs,
                                !.ok = @ + r.ok, !.error = @ + r.error]
    /\ UNCHANGED RestVars

SpecRace == InitRace /\ [][\E w \in 1..2 : DeleteCheck(w) \/ DeleteRemove(w)]_vars

(* copy_entries applied to one entry of the input tree *)

\* The mirror before the entry is copied
CopyMirrors ==
    { (output_dir :> Dir),
      (output_dir :> Dir) @@ (join(output_dir, <<"s">>) :> Dir)
          @@ (join(output_dir, <<"s", "a">>) :> File(1)),
      (output_dir :> Dir) @@ (join(output_dir, <<"s">>) :> Dir)
          @@ (join(output_dir, <<"s", "a">>) :> File(9)),
      (output_dir :> Dir) @@ (join(output_dir, <<"s">>) :> Dir)
          @@ (join(output_dir, <<"s", "a">>) :> Dir),
      (output_dir :> Dir) @@ (join(output_dir, <<"s">>) :> File(5)),
      (output_dir :> Dir) @@ (join(output_dir, <<"s">>) :> Dir)
          @@ (join(output_dir, <<"s", "d">>) :> Dir) }

\* Entries of the files of the input tree of the input /s: (rel, root)
CopyEntries == {<<<<"s", "a">>, <<>>>>, <<<<"s", "d", "f">>, <<>>>>, <<<<"s", "g">>, <<>>>>}

CopyChecksumsInput ==
    {EmptyMap,
     (<<"s", "a">> :> [root |-> <<>>, checksum |-> hexdigest(1)])
         @@ (<<"s", "d", "f">> :> [root |-> <<>>, checksum |-> hexdigest(2)])}

CopyChecksumsOutput ==
    {EmptyMap,
     (<<"s", "a">> :> [root |-> output_dir, checksum |-> hexdigest(1)])
         @@ (<<"s", "d", "f">> :> [root |-> output_dir, checksum |-> hexdigest(2)]),
     (<<"s", "a">> :> [root |-> output_dir, checksum |-> hexdigest(9)])
         @@ (<<"s", "d", "f">> :> [root |-> output_dir, checksum |-> hexdigest(9)])}

InitCopy ==
    /\ Rest
    /\ call \in {[op |-> "copy", step |-> "queued", item |-> i, fs_before |-> SourceFS @@ m,
                  fs |-> SourceFS @@ m, checksums_input |-> ci, checksums_output |-> co,
                  copied |-> 0, error |-> 0] :
                     i \in CopyEntries, m \in CopyMirrors, ci \in CopyChecksumsInput,
                     co \in CopyChecksumsOutput}

\* copy_entries dequeues the entry and processes it
copy_entries ==
    /\ call.op = "copy" /\ call.step = "queued"
    /\ LET r == CopyEntriesItem(call.fs, call.item, call.checksums_input,
                                call.checksums_output)
       IN  call' = [call EXCEPT !.step = "processed", !.fs = r.fs,
                                !.copied = r.copied, !.error = r.error]
    /\ UNCHANGED RestVars

SpecCopy == InitCopy /\ [][copy_entries]_vars

-----------------------------------------------------------------------------
(* The pool of Backupper._copy_entries with a tree that fills its queue *)

\* The largest number of files of the tree
MaxFiles == 12

\* filepaths_queue_size; multiprocessing.Queue(0) has no bound
CopyQueueFull(c) ==
    c.processes_num > 0 /\ c.queue >= c.processes_num * QueueSlotsPerProcess

CopyAlive(c) == {w \in DOMAIN c.workers : c.workers[w] # "exited"}

\* The filler thread and the workers are started: size_total entries in the
\* tree, nothing in the queue
InitPool ==
    /\ Rest
    /\ call \in {[op |-> "pool", size_total |-> n,
                  processes_num |-> min(n, get_max_cpu_numbers(p, 2)),
                  filler |-> "check", progress_counter |-> 0, queue |-> 0,
                  exit |-> FALSE, cancel |-> FALSE, control |-> PROCESS_CONTROL_WORK,
                  workers |-> [w \in 1..min(n, get_max_cpu_numbers(p, 2)) |-> "control"],
                  orch |-> "poll"] : n \in 1..MaxFiles, p \in WorkloadProfiles}

\* The filler at the top of its loop: it ends when its exit flag is set or no
\* entry is left, and goes to put the next entry otherwise
CopyFillerLoop ==
    /\ call.op = "pool" /\ call.filler = "check"
    /\ call' = [call EXCEPT !.filler = IF call.exit \/ call.progress_counter = call.size_total
                                       THEN "finished" ELSE "put"]
    /\ UNCHANGED RestVars

\* filepaths_queue_.put(..., block=True) returns once the queue has room
CopyFillerPut ==
    /\ call.op = "pool" /\ call.filler = "put"
    /\ ~CopyQueueFull(call)
    /\ call' = [call EXCEPT !.filler = "check", !.queue = @ + 1, !.progress_counter = @ + 1]
    /\ UNCHANGED RestVars

\* A worker reads the control value at the top of its loop
CopyWorkerControl(w) ==
    /\ call.op = "pool" /\ w \in DOMAIN call.workers /\ call.workers[w] = "control"
    /\ call' = [call EXCEPT !.workers[w] = IF call.control = PROCESS_CONTROL_EXIT
                                           THEN "exited" ELSE "get"]
    /\ UNCHANGED RestVars

\* filepaths_queue.get: an entry, or the end of the worker on timeout
CopyWorkerGet(w) ==
    /\ call.op = "pool" /\ w \in DOMAIN call.workers /\ call.workers[w] = "get"
    /\ call' = IF call.queue > 0
               THEN [call EXCEPT !.workers[w] = "copy", !.queue = @ - 1]
               ELSE [call EXCEPT !.workers[w] = "exited"]
    /\ UNCHANGED RestVars

\* The worker has processed its entry
CopyWorkerCopy(w) ==
    /\ call.op = "pool" /\ w \in DOMAIN call.workers /\ call.workers[w] = "copy"
    /\ call' = [call EXCEPT !.workers[w] = "control"]
    /\ UNCHANGED RestVars

\* The user asks to cancel
CopyCancel ==
    /\ call.op = "pool" /\ call.orch = "poll" /\ ~call.cancel
    /\ call' = [call EXCEPT !.cancel = TRUE]
    /\ UNCHANGED RestVars

\* One turn of the loop that waits for the workers: it ends when no worker is
\* alive; on a cancel request _process_controller sets the exit flag of the
\* filler and _process_killer writes PROCESS_CONTROL_EXIT
CopyPoolLoop ==
    /\ call.op = "pool" /\ call.orch = "poll"
    /\ CopyAlive(call) = {} \/ call.cancel
    /\ call' = IF CopyAlive(call) = {} THEN [call EXCEPT !.orch = "finished"]
               ELSE [call EXCEPT !.orch = "kill", !.exit = TRUE,
                                 !.control = PROCESS_CONTROL_EXIT]
    /\ UNCHANGED RestVars

\* _process_killer kills a worker that is still alive
CopyKill(w) ==
    /\ call.op = "pool" /\ call.orch = "kill" /\ w \in CopyAlive(call)
    /\ call' = [call EXCEPT !.workers[w] = "exited"]
    /\ UNCHANGED RestVars

\* _process_killer returns when no worker is alive
CopyKilled ==
    /\ call.op = "pool" /\ call.orch = "kill" /\ CopyAlive(call) = {}
    /\ call' = [call EXCEPT !.orch = "canceled"]
    /\ UNCHANGED RestVars

CopyWorker(w) ==
    CopyWorkerControl(w) \/ CopyWorkerGet(w) \/ CopyWorkerCopy(w) \/ CopyKill(w)

CopyPool ==
    \/ CopyFillerLoop \/ CopyFillerPut \/ CopyCancel \/ CopyPoolLoop \/ CopyKilled
    \/ \E w \in 1..2 : CopyWorker(w)

\* The filler thread, the workers and the thread of the backup all run; the
\* user need not cancel
CopyPoolFairness ==
    /\ WF_vars(CopyFillerLoop) /\ WF_vars(CopyFillerPut)
    /\ WF_vars(CopyPoolLoop) /\ WF_vars(CopyKilled)
    /\ \A w \in 1..2 : WF_vars(CopyWorker(w))

SpecPool == InitPool /\ [][CopyPool]_vars /\ CopyPoolFairness

-----------------------------------------------------------------------------
(* The pool of Backupper._generate_tree, its loop step by step *)

\* Input entries of the walked trees: those of the backups, and nested roots
TreeEntries == InputEntriesChoices \cup {(<<"s">> :> FALSE) @@ (<<"s", "d">> :> FALSE)}

WalkersAlive(c) == {w \in DOMAIN c.workers : c.workers[w].st # "exited"}

\* The queues are seeded and the walkers started; put and listed record what
\* the walkers put on parsed_queue and the directories they have enumerated
InitTree ==
    /\ Rest
    /\ call \in {[op |-> "tree", entries |-> e,
                  skipped |-> GenerateTreeSeeds(SourceFS, e, TRUE, {}).skipped,
                  dirs |-> SeqOf(GenerateTreeSeeds(SourceFS, e, TRUE, {}).dirs),
                  parsed |-> GenerateTreeSeeds(SourceFS, e, TRUE, {}).parsed,
                  tree |-> EmptyTree,
                  workers |-> [w \in 1..get_max_cpu_numbers(p, 2) |->
                                  [st |-> "get", item |-> <<>>]],
                  finished |-> FALSE, orch |-> "alive",
                  put |-> {}, listed |-> {}, relisted |-> {}, raced |-> FALSE] :
                     e \in TreeEntries, p \in WorkloadProfiles}

\* directories_to_parse_queue.get: a directory, or the end of the walker on
\* timeout
WalkerGet(w) ==
    /\ call.op = "tree" /\ w \in DOMAIN call.workers /\ call.workers[w].st = "get"
    /\ call' = IF call.dirs # <<>>
               THEN [call EXCEPT !.workers[w] = [st |-> "parse", item |-> Head(call.dirs)],
                                 !.dirs = Tail(call.dirs)]
               ELSE [call EXCEPT !.workers[w].st = "exited"]
    /\ UNCHANGED RestVars

\* The walker enumerates the directory it has dequeued
WalkerParse(w) ==
    /\ call.op = "tree" /\ w \in DOMAIN call.workers /\ call.workers[w].st = "parse"
    /\ LET item == call.workers[w].item
           parent_dir_abs == join(item[2], item[1])
           r == TreeParserItem(SourceFS, item, call.skipped)
           iterated == IF parent_dir_abs \in call.skipped \/ ~isdir(SourceFS, parent_dir_abs)
                       THEN {} ELSE {parent_dir_abs}
       IN  call' = [call EXCEPT !.workers[w] = [st |-> "get", item |-> <<>>],
                                !.parsed = @ \cup r.parsed,
                                !.dirs = @ \o SeqOf(r.dirs),
                                !.put = @ \cup r.parsed,
                                !.listed = @ \cup iterated,
                                !.relisted = @ \cup (iterated \cap call.listed)]
    /\ UNCHANGED RestVars

\* The loop of _generate_tree looks for a walker that is alive
TreeAliveCheckOfOne ==
    /\ call.op = "tree" /\ call.orch = "alive"
    /\ call' = [call EXCEPT !.finished = (WalkersAlive(call) # DOMAIN call.workers
                                          \/ DOMAIN call.workers = {}),
                            !.orch = "drain"]
    /\ UNCHANGED RestVars

TreeAliveCheck ==
    /\ call.op = "tree" /\ call.orch = "alive"
    /\ call' = [call EXCEPT !.finished = (WalkersAlive(call) = {}), !.orch = "drain"]
    /\ UNCHANGED RestVars

\* It empties parsed_queue into the tree and returns the tree when no walker
\* was alive
TreeDrain ==
    /\ call.op = "tree" /\ call.orch = "drain"
    /\ call' = [call EXCEPT !.tree = CollectParsed(call.tree, call.parsed, {}),
                            !.parsed = {},
                            !.orch = IF call.finished THEN "returned" ELSE "alive",
                            !.raced = @ \/ (~call.finished /\ WalkersAlive(call) = {}
                                            /\ call.parsed \cap call.put # {})]
    /\ UNCHANGED RestVars

TreePool ==
    \/ TreeAliveCheck \/ TreeDrain
    \/ \E w \in 1..2 : WalkerGet(w) \/ WalkerParse(w)

SpecTree == InitTree /\ [][TreePool]_vars

-----------------------------------------------------------------------------
(* Stage 3 of start_backup without recalculate_checksum *)

\* Files of a destination, all with the same contents
MergeFS == (output_dir :> Dir) @@ (<<"dst", "a">> :> File(1)) @@ (<<"dst", "z">> :> File(1))
           @@ (<<"dst", "s">> :> Dir) @@ (<<"dst", "s", "a">> :> File(1))

MergeKeys == {relpath(p, output_dir) : p \in {q \in DOMAIN MergeFS : isfile(MergeFS, q)}}

\* Trees of the destination: the files of the tree
MergeTrees == UNION {[keys -> {[root |-> output_dir]}] : keys \in SUBSET MergeKeys}

\* Records parsed from the checksums file, up to date or not
MergeParsed ==
    UNION {[keys -> {[root |-> output_dir, checksum |-> hexdigest(d)] : d \in {1, 9}}] :
              keys \in SUBSET MergeKeys}

InitMerge ==
    /\ Rest
    /\ call \in {[op |-> "merge", step |-> "parsed", files_tree |-> t,
                  checksums_output_parsed |-> parsed, checksums |-> EmptyMap,
                  checksums_output |-> EmptyMap] : t \in MergeTrees, parsed \in MergeParsed}

\* _calculate_checksum(None, checksums_output_parsed, checksum_alg,
\* output_tree["files"], False): the digests of the files the filler puts
calculate_checksum ==
    /\ call.op = "merge" /\ call.step = "parsed"
    /\ LET todo == ChecksumTodo(call.files_tree, call.checksums_output_parsed)
           got == UNION {CalculateChecksumsItem(MergeFS, item).out : item \in todo}
       IN  call' = [call EXCEPT !.step = "calculated",
                                !.checksums = CollectChecksums(EmptyMap, got)]
    /\ UNCHANGED RestVars

\* checksums_output.update(checksums_output_parsed)
merge_checksums ==
    /\ call.op = "merge" /\ call.step = "calculated"
    /\ call' = [call EXCEPT !.step = "merged",
                            !.checksums_output = Update(call.checksums,
                                                        call.checksums_output_parsed)]
    /\ UNCHANGED RestVars

SpecMerge == InitMerge /\ [][calculate_checksum \/ merge_checksums]_vars

-----------------------------------------------------------------------------
(* The counters of calculate_checksums, incremented by several workers *)

MaxAttempts == 2

\* What the attempts of a worker come to, one after the other
AttemptLists == UNION {[1..n -> {"ok", "error"}] : n \in 1..MaxAttempts}

InitCounters ==
    /\ Rest
    /\ call \in {[op |-> "counters", todo |-> t, st |-> [w \in 1..2 |-> "next"],
                  kind |-> [w \in 1..2 |-> "ok"], local |-> [w \in 1..2 |-> 0],
                  ok_lock |-> 0, value |-> [k \in {"ok", "error"} |-> 0],
                  attempts |-> [k \in {"ok", "error"} |-> 0], contended |-> FALSE] :
                 t \in [1..2 -> AttemptLists]}

\* A worker that has the lock and the kind of the counter it increments
Incrementing(c, k) == {w \in 1..2 : c.st[w] \in {"read", "write", "unlock"} /\ c.kind[w] = k}

\* The checksum of the next file is calculated, or the calculation raises
ChecksumAttempt(w) ==
    /\ call.op = "counters" /\ call.st[w] = "next" /\ call.todo[w] # <<>>
    /\ LET k == Head(call.todo[w])
       IN  call' = [call EXCEPT !.todo[w] = Tail(@), !.kind[w] = k, !.st[w] = "lock",
                                !.attempts[k] = @ + 1,
                                !.contended = @ \/ (k = "error"
                                                    /\ Incrementing(call, "error") # {})]
    /\ UNCHANGED RestVars

\* A lock that a worker asks for with nobody to wait for
AcquirableAlways(lock) == TRUE

\* The lock of a multiprocessing.Value is free
Acquirable(lock) == lock = 0

\* with stats_checksums_calculate_ok_value.get_lock(): both counters are
\* incremented with the lock of the counter of the successful calculations
get_lock(w) ==
    /\ call.op = "counters" /\ call.st[w] = "lock"
    /\ Acquirable(call.ok_lock)
    /\ call' = [call EXCEPT !.ok_lock = w, !.st[w] = "read"]
    /\ UNCHANGED RestVars

\* .value += 1, the read of the value
ValueRead(w) ==
    /\ call.op = "counters" /\ call.st[w] = "read"
    /\ call' = [call EXCEPT !.local[w] = call.value[call.kind[w]], !.st[w] = "write"]
    /\ UNCHANGED RestVars

\* .value += 1, the write of the value
ValueWrite(w) ==
    /\ call.op = "counters" /\ call.st[w] = "write"
    /\ call' = [call EXCEPT !.value[call.kind[w]] = call.local[w] + 1, !.st[w] = "unlock"]
    /\ UNCHANGED RestVars

\* The end of the with block
release_lock(w) ==
    /\ call.op = "counters" /\ call.st[w] = "unlock"
    /\ call' = [call EXCEPT !.ok_lock = IF @ = w THEN 0 ELSE @, !.st[w] = "next"]
    /\ UNCHANGED RestVars

Counters ==
    \/ \E w \in 1..2 : ChecksumAttempt(w)
    \/ \E w \in 1..2 : get_lock(w)
    \/ \E w \in 1..2 : ValueRead(w)
    \/ \E w \in 1..2 : ValueWrite(w)
    \/ \E w \in 1..2 : release_lock(w)

SpecCounters == InitCounters /\ [][Counters]_vars

-----------------------------------------------------------------------------
(* The start of the walkers of Backupper._generate_tree, the loop that waits
   for them, and what start_backup does with an exception of _generate_tree *)

MaxCpuCount == 4

\* multiprocessing.cpu_count() of the machines looked at
CpuCounts == 1..MaxCpuCount

InitStart ==
    /\ Rest
    /\ call \in {[op |-> "start", processes_num |-> get_max_cpu_numbers(p, c),
                  processes |-> <<>>, todo |-> n, parsed |-> 0, step |-> "start",
                  finished_signal |-> <<>>] :
                 p \in WorkloadProfiles, c \in CpuCounts, n \in 0..MaxEntries}

\* The workers of the pool that are alive
StartedAlive(c) == {w \in DOMAIN c.processes : c.processes[w] = "alive"}

\* process.start() and processes.append(process); after the last one the loop
\* that waits for the workers begins
ProcessStart ==
    /\ call.op = "start" /\ call.step = "start"
    /\ IF Len(call.processes) < call.processes_num
       THEN call' = [call EXCEPT !.processes = Append(@, "alive")]
       ELSE call' = [call EXCEPT !.step = "loop"]
    /\ UNCHANGED RestVars

\* process.start() raises (OSError of fork): the exception leaves
\* _generate_tree for the except clause of start_backup
ProcessStartRaises ==
    /\ call.op = "start" /\ call.step = "start"
    /\ Len(call.processes) < call.processes_num
    /\ call' = [call EXCEPT !.step = "except"]
    /\ UNCHANGED RestVars

\* tree_parser: a directory of the queue is parsed
WalkerParses(w) ==
    /\ call.op = "start" /\ w \in StartedAlive(call)
    /\ call.todo > 0
    /\ call' = [call EXCEPT !.todo = @ - 1, !.parsed = @ + 1]
    /\ UNCHANGED RestVars

\* tree_parser: the queue is empty, the walker returns
WalkerReturns(w) ==
    /\ call.op = "start" /\ w \in StartedAlive(call)
    /\ call.todo = 0
    /\ call' = [call EXCEPT !.processes[w] = "dead"]
    /\ UNCHANGED RestVars

\* The loop of _generate_tree finds no worker alive: the tree is returned
WalkersFinished ==
    /\ call.op = "start" /\ call.step = "loop"
    /\ StartedAlive(call) = {}
    /\ call' = [call EXCEPT !.step = "returned"]
    /\ UNCHANGED RestVars

\* except Exception: exit_status = EXIT_CODE_ERROR, then _exit(exit_status)
ExceptExit ==
    /\ call.op = "start" /\ call.step = "except"
    /\ call' = [call EXCEPT !.step = "done",
                            !.finished_signal = Append(@, EXIT_CODE_ERROR)]
    /\ UNCHANGED RestVars

StartPool ==
    \/ ProcessStart
    \/ ProcessStartRaises
    \/ \E w \in 1..MaxCpuCount : WalkerParses(w)
    \/ \E w \in 1..MaxCpuCount : WalkerReturns(w)
    \/ WalkersFinished
    \/ ExceptExit

SpecStart == InitStart /\ [][StartPool]_vars

-----------------------------------------------------------------------------
(* The number of the processes of the four pools *)

PoolKinds == {"walkers", "checksums", "delete", "copy"}

\* The sizes of the partitions of the tree a pool works on; for the walkers
\* dirs is the number of the seeded roots
TreeSizes == [files : 0..MaxRecords, dirs : 0..MaxRecords, unknown : 0..MaxRecords]

InitWorkers ==
    /\ Rest
    /\ call \in {[op |-> "workers", pool |-> k, size |-> s, workload_profile |-> p,
                  cpu_cores |-> c, step |-> "filled", processes_num |-> 0, items |-> 0] :
                 k \in PoolKinds, s \in TreeSizes, p \in WorkloadProfiles, c \in CpuCounts}

\* _generate_tree: processes_num = self.get_max_cpu_numbers(); the work items
\* are the directories of directories_to_parse_queue
WalkersNum ==
    /\ call.op = "workers" /\ call.pool = "walkers" /\ call.step = "filled"
    /\ call' = [call EXCEPT !.step = "started", !.items = call.size.dirs,
                            !.processes_num = get_max_cpu_numbers(call.workload_profile,
                                                                  call.cpu_cores)]
    /\ UNCHANGED RestVars

\* _calculate_checksum: processes_num = min(size_started, get_max_cpu_numbers())
ChecksumsNum ==
    /\ call.op = "workers" /\ call.pool = "checksums" /\ call.step = "filled"
    /\ call' = [call EXCEPT !.step = "started", !.items = call.size.files,
                            !.processes_num =
                                min(call.size.files,
                                    get_max_cpu_numbers(call.workload_profile, call.cpu_cores))]
    /\ UNCHANGED RestVars

\* _delete_files: processes_num = min(len(output_tree["files"]),
\* get_max_cpu_numbers()); the filler puts the entries of the three partitions
DeleteNum ==
    /\ call.op = "workers" /\ call.pool = "delete" /\ call.step = "filled"
    /\ call' = [call EXCEPT !.step = "started",
                            !.items = call.size.files + call.size.dirs + call.size.unknown,
                            !.processes_num =
                                min(call.size.files,
                                    get_max_cpu_numbers(call.workload_profile, call.cpu_cores))]
    /\ UNCHANGED RestVars

\* _copy_entries: processes_num = min(len(input_files_tree), get_max_cpu_numbers())
CopyNum ==
    /\ call.op = "workers" /\ call.pool = "copy" /\ call.step = "filled"
    /\ call' = [call EXCEPT !.step = "started", !.items = call.size.files,
                            !.processes_num =
                                min(call.size.files,
                                    get_max_cpu_numbers(call.workload_profile, call.cpu_cores))]
    /\ UNCHANGED RestVars

SpecWorkers == InitWorkers /\ [][WalkersNum \/ ChecksumsNum \/ DeleteNum \/ CopyNum]_vars

-----------------------------------------------------------------------------
(* The window of GUIHandler and the threads it starts on the Backupper.  The
   handlers run in the GUI thread; a dialog runs an event loop of its own, in
   which the queued signals of the threads are delivered while the clicks on
   the window wait for the dialog to close *)

\* Threads the window starts in a session at most
RunIds == 1..MaxRuns

InitGui ==
    /\ Rest
    /\ call \in {[op |-> "gui", backup_active |-> FALSE, validation_active |-> FALSE,
                  exit_request |-> FALSE, close_from_self |-> FALSE, closed |-> FALSE,
                  dialogs |-> <<>>, pending |-> <<>>,
                  threads |-> [t \in RunIds |-> "none"],
                  kinds |-> [t \in RunIds |-> "none"],
                  request_pause |-> FALSE, request_resume |-> FALSE,
                  request_cancel |-> FALSE, paused |-> FALSE,
                  btn_start_stop |-> TRUE, btn_validate |-> TRUE, btn_pause_resume |-> b,
                  entries_ok |-> ok, started_when |-> <<>>] :
                 b \in BOOLEAN, ok \in BOOLEAN}

GuiActive(c) == c.backup_active \/ c.validation_active

\* The window takes a click: it is open and no dialog is
Clickable(c) == c.op = "gui" /\ ~c.closed /\ c.dialogs = <<>>

\* The dialog on top of the others
TopDialog(c) == IF c.dialogs = <<>> THEN "none" ELSE c.dialogs[Len(c.dialogs)]

Pop(dialogs) == SubSeq(dialogs, 1, Len(dialogs) - 1)

\* The threads that have been started and have not returned
ThreadsAlive(c) == {t \in RunIds : c.threads[t] \notin {"none", "returned"}}

\* The thread a start would make
NextThread(c) == CHOOSE t \in RunIds : c.threads[t] = "none" /\ \A u \in 1..(t - 1) : c.threads[u] # "none"

\* The second test of the flags, then threading.Thread(target=...).start() and
\* the flag of the run
StartThread(c, kind) ==
    IF GuiActive(c) THEN [c EXCEPT !.dialogs = Pop(@)]
    ELSE [c EXCEPT !.threads[NextThread(c)] = "started", !.kinds[NextThread(c)] = kind,
                   !.backup_active = IF kind = "backup" THEN TRUE ELSE @,
                   !.validation_active = IF kind = "validation" THEN TRUE ELSE @,
                   !.btn_validate = FALSE,
                   !.btn_pause_resume = (kind = "backup"),
                   !.started_when = Append(@, GuiActive(c)),
                   !.dialogs = Pop(@)]

\* backup_validation_start_stop: the click on btn_start_stop opens the dialog
\* of the start or that of the cancel
ClickStartStop ==
    /\ Clickable(call) /\ call.btn_start_stop
    /\ GuiActive(call) \/ \E t \in RunIds : call.threads[t] = "none"
    /\ call' = [call EXCEPT !.dialogs = Append(@, IF GuiActive(call) THEN "ask_cancel"
                                                  ELSE "ask_start")]
    /\ UNCHANGED RestVars

\* backup_validation_start_stop after the dialog of the start: the entries are
\* checked and the backup is started
AnswerStart(yes) ==
    /\ call.op = "gui" /\ TopDialog(call) = "ask_start"
    /\ call' = IF ~yes THEN [call EXCEPT !.dialogs = Pop(@)]
               ELSE IF ~GuiActive(call) /\ ~call.entries_ok
               THEN [call EXCEPT !.dialogs = Append(Pop(@), "message")]
               ELSE StartThread(call, "backup")
    /\ UNCHANGED RestVars

\* backup_validation_start_stop after the dialog of the cancel
AnswerCancel(yes) ==
    /\ call.op = "gui" /\ TopDialog(call) = "ask_cancel"
    /\ call' = IF yes /\ GuiActive(call)
               THEN [call EXCEPT !.dialogs = Pop(@), !.request_cancel = TRUE,
                                 !.btn_start_stop = FALSE, !.btn_pause_resume = FALSE]
               ELSE [call EXCEPT !.dialogs = Pop(@)]
    /\ UNCHANGED RestVars

\* validation_start: the click on btn_validate
ClickValidate ==
    /\ Clickable(call) /\ call.btn_validate
    /\ \E t \in RunIds : call.threads[t] = "none"
    /\ ~GuiActive(call)
    /\ call' = [call EXCEPT !.dialogs = Append(@, "ask_validate")]
    /\ UNCHANGED RestVars

\* validation_start after its dialog
AnswerValidate(yes) ==
    /\ call.op = "gui" /\ TopDialog(call) = "ask_validate"
    /\ call' = IF ~yes THEN [call EXCEPT !.dialogs = Pop(@)]
               ELSE StartThread(call, "validation")
    /\ UNCHANGED RestVars

\* backup_pause_resume: the click on btn_pause_resume
ClickPauseResume ==
    /\ Clickable(call) /\ call.btn_pause_resume
    /\ ~call.request_pause /\ ~call.request_resume /\ ~call.request_cancel
    /\ call' = IF call.paused
               THEN [call EXCEPT !.request_resume = TRUE, !.btn_pause_resume = FALSE]
               ELSE [call EXCEPT !.dialogs = Append(@, "ask_pause")]
    /\ UNCHANGED RestVars

\* backup_pause_resume after the dialog of the pause
AnswerPause(yes) ==
    /\ call.op = "gui" /\ TopDialog(call) = "ask_pause"
    /\ call' = IF yes /\ ~call.request_pause /\ ~call.request_resume /\ ~call.request_cancel
                  /\ ~call.paused
               THEN [call EXCEPT !.dialogs = Pop(@), !.request_pause = TRUE,
                                 !.btn_pause_resume = FALSE]
               ELSE [call EXCEPT !.dialogs = Pop(@)]
    /\ UNCHANGED RestVars

\* closeEvent of a click on the close button of the window
CloseEvent ==
    /\ Clickable(call)
    /\ call' = IF ~call.close_from_self /\ GuiActive(call)
               THEN [call EXCEPT !.dialogs = Append(@, "ask_quit")]
               ELSE [call EXCEPT !.closed = TRUE]
    /\ UNCHANGED RestVars

\* closeEvent after its dialog
AnswerQuit(yes) ==
    /\ call.op = "gui" /\ TopDialog(call) = "ask_quit"
    /\ call' = IF yes /\ GuiActive(call)
               THEN [call EXCEPT !.dialogs = Pop(@), !.request_cancel = TRUE,
                                 !.btn_start_stop = FALSE, !.btn_pause_resume = FALSE,
                                 !.exit_request = TRUE, !.close_from_self = FALSE]
               ELSE [call EXCEPT !.dialogs = Pop(@), !.close_from_self = FALSE]
    /\ UNCHANGED RestVars

\* A message box is closed
DismissMessage ==
    /\ call.op = "gui" /\ TopDialog(call) = "message"
    /\ call' = [call EXCEPT !.dialogs = Pop(@)]
    /\ UNCHANGED RestVars

\* backup_finished_callback, validation_finished_callback and
\* backup_paused_resumed_callback: the first of the queued signals is delivered
\* to the GUI thread
SignalCallback ==
    /\ call.op = "gui" /\ ~call.closed /\ call.pending # <<>>
    /\ LET signal == Head(call.pending)
           rest == [call EXCEPT !.pending = Tail(@)]
       IN  call' =
              IF signal \in {"paused", "resumed"}
              THEN [rest EXCEPT !.btn_pause_resume = TRUE, !.dialogs = Append(@, "message")]
              ELSE IF call.exit_request
              THEN [rest EXCEPT !.close_from_self = TRUE, !.closed = TRUE]
              ELSE [rest EXCEPT !.backup_active = IF signal = "backup" THEN FALSE ELSE @,
                                !.validation_active = IF signal = "validation" THEN FALSE
                                                      ELSE @,
                                !.btn_validate = TRUE, !.btn_start_stop = TRUE,
                                !.btn_pause_resume = FALSE,
                                !.dialogs = Append(@, "message")]
    /\ UNCHANGED RestVars

\* start_backup and validate: the flags are cleared
ThreadBegins(t) ==
    /\ call.op = "gui" /\ call.threads[t] = "started"
    /\ call' = [call EXCEPT !.threads[t] = "running", !.request_pause = FALSE,
                            !.request_resume = FALSE, !.request_cancel = FALSE,
                            !.paused = FALSE]
    /\ UNCHANGED RestVars

\* _pause up to its loop
ThreadPauses(t) ==
    /\ call.op = "gui" /\ call.threads[t] = "running"
    /\ call.request_pause /\ ~call.request_cancel
    /\ call' = [call EXCEPT !.threads[t] = "paused", !.request_pause = FALSE,
                            !.paused = TRUE,
                            !.pending = IF call.kinds[t] = "backup"
                                        THEN Append(@, "paused") ELSE @]
    /\ UNCHANGED RestVars

\* _pause after its loop, with request_resume and no request_cancel
ThreadResumes(t) ==
    /\ call.op = "gui" /\ call.threads[t] = "paused"
    /\ call.request_resume /\ ~call.request_cancel
    /\ call' = [call EXCEPT !.threads[t] = "running", !.request_resume = FALSE,
                            !.paused = FALSE,
                            !.pending = IF call.kinds[t] = "backup"
                                        THEN Append(@, "resumed") ELSE @]
    /\ UNCHANGED RestVars

\* _exit, its first statement: finished is emitted, by a run that has come to
\* its end or to a test of request_cancel
ThreadEmitsFinished(t) ==
    /\ call.op = "gui"
    /\ \/ call.threads[t] = "running"
       \/ call.threads[t] = "paused" /\ call.request_cancel
    /\ call' = [call EXCEPT !.threads[t] = "emitted",
                            !.pending = Append(@, call.kinds[t])]
    /\ UNCHANGED RestVars

\* _exit, the statements after the emission, and the return of the thread
ThreadReturns(t) ==
    /\ call.op = "gui" /\ call.threads[t] = "emitted"
    /\ call' = [call EXCEPT !.threads[t] = "returned", !.request_pause = FALSE,
                            !.request_resume = FALSE, !.request_cancel = FALSE,
                            !.paused = FALSE]
    /\ UNCHANGED RestVars

Gui ==
    \/ ClickStartStop
    \/ \E yes \in BOOLEAN : AnswerStart(yes)
    \/ \E yes \in BOOLEAN : AnswerCancel(yes)
    \/ ClickValidate
    \/ \E yes \in BOOLEAN : AnswerValidate(yes)
    \/ ClickPauseResume
    \/ \E yes \in BOOLEAN : AnswerPause(yes)
    \/ CloseEvent
    \/ \E yes \in BOOLEAN : AnswerQuit(yes)
    \/ DismissMessage
    \/ SignalCallback
    \/ \E t \in RunIds : ThreadBegins(t)
    \/ \E t \in RunIds : ThreadPauses(t)
    \/ \E t \in RunIds : ThreadResumes(t)
    \/ \E t \in RunIds : ThreadEmitsFinished(t)
    \/ \E t \in RunIds : ThreadReturns(t)

SpecGui == InitGui /\ [][Gui]_vars

-----------------------------------------------------------------------------
(* Properties *)

Succeeded == pc = "done" /\ exit_status = EXIT_CODE_SUCCESSFULLY /\ ~hist.validate

Partitions == {PATH_FILE, PATH_DIR, PATH_UNKNOWN}

\* The relative path is an entry of the input tree
InInputTree(rel) == \E type \in Partitions : rel \in DOMAIN input_tree[type]

\* The source path is a skipped input path or lies below one
UnderSkipped(p) == \E s \in DOMAIN input_entries : input_entries[s] /\ IsPrefix(s, p)

\* The images in the mirror of a skipped input path: below the image of the
\* input entry that holds it, and as an input entry of its own
SkippedImages ==
    {join(output_dir, relpath(y[1], dirname(y[2]))) :
        y \in {z \in (DOMAIN input_entries) \X (DOMAIN input_entries) :
                  input_entries[z[1]] /\ IsPrefix(z[2], z[1])}}

UnderSkippedImage(p) == \E image \in SkippedImages : IsPrefix(image, p)

\* The entries of the destination when the run began, the destination itself
\* and the two files the run writes beside the mirror apart
MirrorAtStart ==
    {p \in DOMAIN hist.fs_start :
        IsPrefix(output_dir, p) /\ p \notin {output_dir, checksum_file_out, tree_file}}

\* C1: whenever a backup run has returned SUCCESS, every file of the FILE
\* partition of the input tree has a mirror file at join(destination, key) with
\* the same content digest, whatever recalculate_checksum and the prior mirror
\* and manifest were.
C1_MirrorCompleteness ==
    Succeeded =>
        \A rel \in DOMAIN input_tree.files :
            LET F == join(input_tree.files[rel].root, rel)
                mirror == join(output_dir, rel)
            IN  /\ isfile(fs, F)
                /\ isfile(fs, mirror)
                /\ hexdigest(fs[mirror].data) = hexdigest(fs[F].data)

\* C2: in a run started after a successful run with the same configuration,
\* the same inputs and the mirror that run left, the copied, deleted and
\* created-directory counters stay 0 and the manifest written is the one the
\* run before wrote.
C2_Idempotence ==
    (runs >= 2 /\ hist.prev_status = EXIT_CODE_SUCCESSFULLY) =>
        /\ stats.copied_ok = 0
        /\ stats.deleted_ok = 0
        /\ stats.created_dirs_ok = 0
        /\ Succeeded => manifest = hist.prev_manifest

\* C3: after stage 7 of a successful run every record of the manifest names a
\* file that exists under the destination and whose content digest is the
\* recorded one.
C3_ManifestFaithful ==
    (pc = "tree_txt" \/ Succeeded) =>
        \A k \in DOMAIN manifest :
            /\ isfile(fs, join(output_dir, k))
            /\ hexdigest(fs[join(output_dir, k)].data) = manifest[k]

\* C4: after a successful run the manifest holds, for every file of the input
\* tree, a record keyed by its relative path that carries the digest of its
\* content, with recalculate_checksum false and true.
C4_ManifestComplete ==
    Succeeded =>
        \A rel \in DOMAIN input_tree.files :
            /\ rel \in DOMAIN manifest
            /\ manifest[rel] = hexdigest(fs[join(input_tree.files[rel].root, rel)].data)

C6_SkippedNeverEnumerated ==
    /\ \A type \in Partitions : \A rel \in DOMAIN input_tree[type] :
          ~UnderSkipped(join(input_tree[type][rel].root, rel))
    /\ \A p \in hist.digested \cup hist.copied \cup hist.created : ~UnderSkipped(p)

\* C7: after a successful run with delete_data, no entry that the destination
\* held when the run began, that is not in the input tree and not under the
\* image of a skipped input path, exists any more, and every entry of the
\* mirror that is in the input tree still exists.
C7_StrayDeleted ==
    (Succeeded /\ cfg.delete_data) =>
        \A p \in MirrorAtStart :
            IF InInputTree(relpath(p, output_dir)) THEN exists(fs, p)
            ELSE UnderSkippedImage(p) \/ ~exists(fs, p)

\* C8: a run during which request_cancel was set at any moment returns
\* CANCELED and emits finished(CANCELED), never SUCCESS or ERROR.
C8_CancelHonored ==
    (pc = "done" /\ hist.cancel) =>
        /\ exit_status = EXIT_CODE_CANCELED
        /\ finished_signal[Len(finished_signal)] = EXIT_CODE_CANCELED


AliveW(w) == w \in DOMAIN processes /\ Alive(w)
PausedW(w) == w \in DOMAIN processes /\ processes[w].st = "pause"

\* C9: when _process_controller has observed request_cancel in a pool stage
\* the control value is EXIT, every worker of the stage eventually is not
\* alive, and finished(CANCELED) is emitted only when no worker is alive.
C9_CancelLiveness ==
    /\ [](orch = "kill" => control_value = PROCESS_CONTROL_EXIT)
    /\ \A w \in WorkerIds : (orch = "kill" /\ AliveW(w)) ~> ~AliveW(w)
    /\ (orch = "kill") ~> (pc = "done" /\ exit_status = EXIT_CODE_CANCELED)
    /\ [][(pc \in PoolStages /\ finished_signal' # finished_signal) => AllExited]_vars

\* C9 happens: _process_killer has killed a worker that holds an entry and is
\* waiting for it to die
C9_Witness ==
    /\ orch = "kill"
    /\ \E w \in DOMAIN processes : processes[w].killed /\ processes[w].st = "work"

\* What C10 says of the workers while the control value is PAUSE: a worker in
\* its pause loop stays there and holds no entry, it leaves the loop only to
\* dequeue on WORK or to return on EXIT, and every worker alive gets there
PauseHolds ==
    /\ [][\A w \in DOMAIN processes :
             processes[w].st = "pause" =>
                IF control_value = PROCESS_CONTROL_PAUSE
                THEN processes'[w] = processes[w]
                ELSE processes'[w].st \in {"pause", "exited"}
                     \/ (processes'[w].st = "get"
                         /\ control_value = PROCESS_CONTROL_WORK)]_vars
    /\ \A w \in WorkerIds :
          (control_value = PROCESS_CONTROL_PAUSE /\ AliveW(w))
             ~> (control_value # PROCESS_CONTROL_PAUSE \/ ~AliveW(w) \/ PausedW(w))
    /\ \A w \in WorkerIds :
          (control_value = PROCESS_CONTROL_WORK /\ PausedW(w))
             ~> (control_value # PROCESS_CONTROL_WORK \/ ~PausedW(w))

\* C10 as it is stated: the workers pause as PauseHolds says, a pause request
\* made in a pool stage is answered, and after request_resume the control value
\* of the stage returns to WORK.
C10_PauseResumeLiveness ==
    /\ PauseHolds
    /\ (request_pause /\ pc \in PoolStages) ~> (paused \/ ~Active)
    /\ (request_resume /\ pc \in PoolStages)
          ~> (Active /\ ~paused /\ control_value = PROCESS_CONTROL_WORK)

\* C10 with the exception the code makes: the workers pause as PauseHolds says,
\* a pause request made in a pool stage is answered unless the run ends first,
\* and after request_resume the control value of the stage returns to WORK
\* unless request_cancel is set before _pause has returned.
C10_PauseResumeUnlessCancel ==
    /\ PauseHolds
    /\ (request_pause /\ pc \in PoolStages) ~> (paused \/ ~Active)
    /\ (request_resume /\ pc \in PoolStages)
          ~> (\/ Active /\ ~paused /\ control_value = PROCESS_CONTROL_WORK
              \/ hist.cancel)

\* C10 happens: the user has resumed a paused pool stage, the control value is
\* WORK again, and a worker still is in its pause loop
C10_Witness ==
    /\ pc \in PoolStages
    /\ control_value = PROCESS_CONTROL_WORK
    /\ hist.pause /\ ~paused
    /\ \E w \in DOMAIN processes : processes[w].st = "pause"

\* A validation has ended with SUCCESS
Validated == pc = "done" /\ hist.validate /\ exit_status = EXIT_CODE_SUCCESSFULLY

\* The files of the mirror other than the checksums file
MirrorFiles == {p \in Below(fs, output_dir) : isfile(fs, p) /\ p # checksum_file_out}

\* C11: a validation run right after a successful backup, on the mirror that
\* backup left, ends with no mismatch and no missing checksum counted, and with
\* as many matches counted as the mirror has files other than the checksums
\* file.
C11_FreshValidation ==
    (pc = "done" /\ hist.validate /\ hist.prev_status = EXIT_CODE_SUCCESSFULLY) =>
        /\ exit_status = EXIT_CODE_SUCCESSFULLY
        /\ stats.validate_not_match = 0
        /\ stats.validate_not_exist = 0
        /\ stats.validate_match = Cardinality(MirrorFiles)

\* The keys of the records of the checksums file that name a file of the
\* mirror whose content has another digest
Corrupted ==
    {k \in DOMAIN manifest :
        /\ isfile(fs, join(output_dir, k))
        /\ hexdigest(fs[join(output_dir, k)].data) # manifest[k]}

\* C12: a validation that has ended with SUCCESS has counted every file of the
\* mirror whose digest differs from its record once as a mismatch, and not as
\* a match or as missing.
C12_CorruptionDetected ==
    Validated =>
        /\ \A k \in Corrupted :
              k \in hist.not_match /\ k \notin hist.match \cup hist.not_exist
        /\ stats.validate_not_match = Cardinality(hist.not_match)

\* C15: a validation started without a checksums file has ended with
\* EXIT_CODE_ERROR and finished(EXIT_CODE_ERROR), with no worker started,
\* nothing enumerated and every counter 0.
C15_ManifestMissing ==
    (hist.validate /\ ~exists(hist.fs_start, checksum_file_out)) =>
        /\ pc = "done"
        /\ exit_status = EXIT_CODE_ERROR
        /\ finished_signal # <<>>
        /\ finished_signal[Len(finished_signal)] = EXIT_CODE_ERROR
        /\ processes = <<>>
        /\ output_tree = EmptyTree
        /\ stats = ZeroStats

\* C15 happens: a validation of a destination that holds entries and no
\* checksums file has ended with EXIT_CODE_ERROR
C15_Witness ==
    /\ hist.validate
    /\ ~exists(hist.fs_start, checksum_file_out)
    /\ \E p \in DOMAIN hist.fs_start : IsPrefix(output_dir, p) /\ p # output_dir
    /\ pc = "done" /\ exit_status = EXIT_CODE_ERROR

\* C13: parsing the checksums file written for a set of records gives back
\* exactly these records, the same paths with the same digests, whatever
\* spaces, asterisks or non-normalized segments the paths hold
C13_ManifestRoundTrip ==
    (call.op = "manifest" /\ call.step = "parsed") => call.parsed = call.recs

\* Two entries that are not skipped have the same basename
SameKeyNotSkipped(input_paths) ==
    \E i, j \in 1..Len(input_paths) :
        /\ i # j
        /\ ~input_paths[i].skip /\ ~input_paths[j].skip
        /\ relpath(input_paths[i].path, dirname(input_paths[i].path))
               = relpath(input_paths[j].path, dirname(input_paths[j].path))

\* C14: whatever the order of the configured entries, parse_input_entries
\* raises an error and no stage is started when two entries that are not
\* skipped have the same basename, and raises no duplicate error when no two
\* such entries have
C14_DuplicateDetection ==
    (call.op = "entries" /\ call.step = "parsed") =>
        /\ SameKeyNotSkipped(call.input_paths) => (call.raised # "none" /\ pc = "idle")
        /\ ~SameKeyNotSkipped(call.input_paths) => call.raised # "Duplicated path"

\* The changes of a control value the program may make
ControlTransitions == {<<PROCESS_CONTROL_WORK, PROCESS_CONTROL_PAUSE>>,
                       <<PROCESS_CONTROL_PAUSE, PROCESS_CONTROL_WORK>>,
                       <<PROCESS_CONTROL_WORK, PROCESS_CONTROL_EXIT>>,
                       <<PROCESS_CONTROL_PAUSE, PROCESS_CONTROL_EXIT>>}

\* C16: while a pool stage runs, its control value only changes from WORK to
\* PAUSE, from PAUSE to WORK, from WORK to EXIT and from PAUSE to EXIT, and so
\* never changes once it is EXIT, whatever the user requests and when
C16_ControlTransitions ==
    [][(pc \in PoolStages /\ pc' = pc /\ control_value' # control_value)
           => <<control_value, control_value'>> \in ControlTransitions]_vars

\* A pool stage that was paused, resumed and then cancelled, with workers alive
C16_Witness ==
    /\ pc \in PoolStages
    /\ control_value = PROCESS_CONTROL_EXIT
    /\ hist.pause /\ ~request_pause /\ ~paused /\ hist.cancel
    /\ \E w \in DOMAIN processes : Alive(w)

\* The pools a filler thread feeds
FilledPools == PoolStages \ TreePools

\* C17: in a run that is not cancelled, when the next stage begins every entry
\* the filler thread of the stage had to put has been taken and processed by
\* a worker of the stage, the input queue of the stage is empty and every
\* result of the workers has been collected
C17_StageHappensBefore ==
    [][(pc \in FilledPools /\ pc' \notin {pc, "done"} /\ ~hist.cancel) =>
           /\ filler.todo = {}
           /\ queue_in = <<>>
           /\ \A w \in DOMAIN processes : processes[w].item = {}
           /\ queue_out = {}]_vars

\* The files a digest stage is given and the records it is told to leave out
DigestSource == IF pc = "sums_in" THEN input_tree.files ELSE output_tree.files
DigestExclude == IF pc = "sums_out" THEN checksums_output_parsed ELSE EmptyMap
DigestExpected == {rel \in DOMAIN DigestSource \ DOMAIN DigestExclude :
                      exists(fs, join(DigestSource[rel].root, rel))}

\* C18: when a digest stage that is not cancelled ends, the mapping it returns
\* holds one record, with the digest of the file, for every file of its tree
\* that is not left out and exists, and no other record; every such file was
\* digested once, whatever the number of the workers and their interleaving
C18_DigestExactlyOnce ==
    [][(pc \in ChecksumPools /\ pc' # pc /\ ~hist.cancel) =>
           /\ DOMAIN checksums = DigestExpected
           /\ \A rel \in DigestExpected :
                  checksums[rel].checksum = hexdigest(fs[join(DigestSource[rel].root, rel)].data)
           /\ pc = "sums_in" => stats.checksums_calculate_ok = Cardinality(DigestExpected)]_vars

\* C19: an entry of the mirror whose relative path is in the partition of its
\* kind of the input tree is not deleted by delete_files, whatever
\* delete_skipped and the skipped entries are
C19_TrackedKept ==
    (/\ call.op = "delete" /\ call.step = "processed"
     /\ call.item.rel \in DOMAIN call.input_tree[call.item.type])
        => exists(call.fs, join(call.item.root, call.item.rel))

\* Some non-empty suffix of parent_path is a prefix of child_path
SuffixIsPrefix(parent_path, child_path) ==
    \E k \in 1..Len(parent_path) :
        /\ k <= Len(child_path)
        /\ SubSeq(parent_path, Len(parent_path) - k + 1, Len(parent_path))
               = SubSeq(child_path, 1, k)

\* C20: is_path_relative_to(parent_path, child_path) is True exactly when some
\* non-empty suffix of parent_path equals a prefix of child_path, parents
\* with repeated segments included
C20_RelativeIffSuffix ==
    (call.op = "relative" /\ call.step = "returned") =>
        (call.result <=> SuffixIsPrefix(call.parent_path, call.child_path))

\* C21: for an entry of unknown kind delete_files decides to delete, when the
\* removal as a file fails (the entry is a directory) and the removal as a
\* directory takes the entry away, deleted_ok grows by one and deleted_error
\* does not; deleted_error grows only when the entry is still there
C21_UnknownDeleted ==
    (call.op = "delete" /\ call.step = "processed" /\ call.item.type = PATH_UNKNOWN) =>
        LET out_filepath_abs == join(call.item.root, call.item.rel)
        IN  /\ (isdir(DeleteFS, out_filepath_abs) /\ ~exists(call.fs, out_filepath_abs))
                  => (call.ok = 1 /\ call.error = 0)
            /\ call.error = 1 => exists(call.fs, out_filepath_abs)

\* Both entries of the two workers are stray: delete_files decides to delete them
RaceStray ==
    \A w \in 1..2 :
        DeleteFlag(call.workers[w].item, call.input_tree,
                   {SplitAbs(p) : p \in call.skipped_entries_abs}, call.delete_skipped)

\* C22: when two workers process a stray directory and a stray entry inside
\* it, in every interleaving both entries are removed in the end and
\* deleted_error is not incremented
C22_DeletionRace ==
    (/\ call.op = "race" /\ RaceStray
     /\ \A w \in 1..2 : call.workers[w].st = "done")
        => /\ \A w \in 1..2 :
                  ~exists(call.fs, join(call.workers[w].item.root, call.workers[w].item.rel))
           /\ call.error = 0

\* The entry copy_entries has processed: its source, its destination, the test
\* of the claim and the outcomes
CopySource == join(call.item[2], call.item[1])
CopyDestination == join(output_dir, call.item[1])
CopyProcessed ==
    call.op = "copy" /\ call.step = "processed" /\ exists(call.fs_before, CopySource)
DigestsEqual ==
    /\ exists(call.fs_before, CopyDestination)
    /\ call.item[1] \in DOMAIN call.checksums_input
    /\ call.item[1] \in DOMAIN call.checksums_output
    /\ call.checksums_output[call.item[1]].checksum
           = call.checksums_input[call.item[1]].checksum
\* The parent directory of the destination exists or can be created
ParentCanBeCreated ==
    \A i \in 1..(Len(CopyDestination) - 1) :
        ~isfile(call.fs_before, SubSeq(CopyDestination, 1, i))
CopySkipped == call.fs = call.fs_before /\ call.copied = 0 /\ call.error = 0
CopyWritten ==
    /\ isfile(call.fs, CopyDestination)
    /\ call.fs[CopyDestination].data = call.fs_before[CopySource].data
    /\ call.copied = 1 /\ call.error = 0

\* C23 as stated: for an entry whose source exists copy_entries leaves the
\* destination untouched exactly when the destination exists and both digests
\* are present and equal, and in every other case, when the parent directory
\* can be created, it writes the destination
C23_IncrementalShortcut ==
    CopyProcessed =>
        /\ DigestsEqual => CopySkipped
        /\ (~DigestsEqual /\ ParentCanBeCreated) => CopyWritten

\* What copy_entries does do: the same where the destination is not a
\* directory; a destination that is a directory is left a directory and the
\* file is copied into it
IncrementalShortcutOfFiles ==
    CopyProcessed =>
        /\ DigestsEqual => CopySkipped
        /\ (~DigestsEqual /\ ParentCanBeCreated /\ ~isdir(call.fs_before, CopyDestination))
              => CopyWritten
        /\ (~DigestsEqual /\ isdir(call.fs_before, CopyDestination))
              => /\ isdir(call.fs, CopyDestination)
                 /\ isfile(call.fs, join(CopyDestination, <<CopySource[Len(CopySource)]>>))
                 /\ call.copied = 1

\* A stale copy with digests that differ has been overwritten
StaleCopyOverwritten ==
    /\ CopyProcessed
    /\ isfile(call.fs_before, CopyDestination)
    /\ call.fs_before[CopyDestination].data # call.fs_before[CopySource].data
    /\ call.item[1] \in DOMAIN call.checksums_input
    /\ call.item[1] \in DOMAIN call.checksums_output
    /\ CopyWritten

\* C24: when the relative path of the entry has no record in the input
\* digests, copy_entries does not copy the file and increments copied_error
C24_MissingInputDigest ==
    (CopyProcessed /\ call.item[1] \notin DOMAIN call.checksums_input) =>
        /\ call.fs = call.fs_before
        /\ call.copied = 0
        /\ call.error = 1

\* C25: a worker of a digest stage that has read EXIT at the top of its loop
\* takes no further entry from the input queue and digests no further file
C25_DigestWorkerOnExit ==
    [][\A w \in DOMAIN processes :
          (pc \in ChecksumPools /\ pc' = pc /\ processes[w].exit)
             => (processes'[w].item \subseteq processes[w].item)]_vars

\* C26: once the thread of the backup has set the exit flag of the filler on a
\* cancel request, the filler thread eventually terminates, also when the
\* bounded input queue is full and every worker has exited or been killed
C26_FillerTerminates ==
    (call.op = "pool" /\ call.exit) ~> (call.filler = "finished")

\* The exit flag is set while the filler waits in put on the full queue
FillerBlockedAtCancel ==
    /\ call.op = "pool" /\ call.exit /\ call.filler = "put" /\ CopyQueueFull(call)
    /\ CopyAlive(call) = {}

\* The partition of the tree for a classification
PartitionOf(t, type) ==
    IF type = PATH_FILE THEN t.files ELSE IF type = PATH_DIR THEN t.dirs ELSE t.unknown

\* C27: when _generate_tree returns a tree, every entry a walker has put on
\* parsed_queue is in the tree, under the partition of its classification and
\* with its root, however the exits of the walkers fall between the look for
\* alive walkers and the emptying of the queue
C27_CollectionLosesNothing ==
    (call.op = "tree" /\ call.orch = "returned")
        => \A e \in call.put :
              /\ e.rel \in DOMAIN PartitionOf(call.tree, e.type)
              /\ PartitionOf(call.tree, e.type)[e.rel].root = e.root

\* A tree is returned after the last walker has exited between the look for
\* alive walkers and the emptying of the queue, with entries of its own waiting
C27_Witness ==
    call.op = "tree" /\ call.orch = "returned" /\ call.raced /\ call.put # {}

\* The directories a walk from the seeded roots has to enumerate: not empty,
\* at or below an entry that is not skipped, with no skipped path on the way
ReachableDirs(c) ==
    {d \in DOMAIN SourceFS :
        /\ isdir(SourceFS, d) /\ Children(SourceFS, d) # {}
        /\ \E r \in DOMAIN c.entries :
              /\ ~c.entries[r] /\ IsPrefix(r, d)
              /\ \A p \in DOMAIN SourceFS :
                    (IsPrefix(r, p) /\ IsPrefix(p, d)) => p \notin c.skipped}

\* C28: when the walkers have all exited and the pool has ended, the queue of
\* pending directories is empty and every directory that is not empty, not
\* ignored and reachable from a seeded root has been enumerated exactly once
C28_WalkerPoolCompletion ==
    (call.op = "tree" /\ call.orch = "returned")
        => /\ call.dirs = <<>>
           /\ \A d \in ReachableDirs(call) : d \in call.listed /\ d \notin call.relisted

\* Without nested roots and with a walker, the pool ends with every reachable
\* directory enumerated once
WalkerPoolCompletionOfDisjointRoots ==
    (/\ call.op = "tree" /\ call.orch = "returned"
     /\ DOMAIN call.workers # {}
     /\ call.entries \in InputEntriesChoices)
        => /\ call.dirs = <<>>
           /\ \A d \in ReachableDirs(call) : d \in call.listed /\ d \notin call.relisted

\* The paths below the destination, without the destination itself and the
\* checksums file
MirrorContents(f) ==
    {p \in DOMAIN f : IsPrefix(output_dir, p) /\ p # output_dir /\ p # checksum_file_out}

\* C29: the tree of the destination built in stage 1 holds every file and
\* directory below the destination, and holds neither the destination itself
\* nor the checksums file
C29_MirrorTreeContents ==
    pc = "sums_in"
        => /\ \A p \in MirrorContents(fs) :
                 relpath(p, output_dir) \in
                    DOMAIN (IF isfile(fs, p) THEN output_tree.files ELSE output_tree.dirs)
           /\ \A t \in {output_tree.files, output_tree.dirs, output_tree.unknown} :
                 \A rel \in DOMAIN t :
                    join(t[rel].root, rel) \notin {output_dir, checksum_file_out}

DigestPart(line) == Strip(Split(Without(Without(line, "\n"), "\r"), "*", <<>>)[1])

IsHex(str) == \A i \in 1..Len(str) : str[i] \in HexDigits

\* C31: parse_checksums_from_file gives no record for a line whose part before
\* the first asterisk has the length of the algorithm and holds a character
\* that is no hexadecimal digit; the digest of every record has that length
\* and hexadecimal digits only
C31_NonHexRejected ==
    (call.op = "manifest" /\ call.step = "parsed")
        => /\ \A k \in DOMAIN call.parsed :
                 Len(call.parsed[k]) = DigestLength("md5") /\ IsHex(call.parsed[k])
           /\ \A i \in 1..Len(call.lines) :
                 (Len(DigestPart(call.lines[i])) = DigestLength("md5")
                  /\ ~IsHex(DigestPart(call.lines[i])))
                    => \A k \in DOMAIN call.parsed : call.parsed[k] # DigestPart(call.lines[i])

\* The thread of the run waits in _pause with request_cancel set, or has left
\* it for _process_killer
CancelledInPause == (orch = "pause" /\ request_cancel) \/ orch = "kill"

\* C32: when request_cancel is set while the thread of the run waits in
\* _pause, with or without request_resume, the control value goes from PAUSE
\* to EXIT and never to WORK, no paused worker takes another entry, and the
\* run ends with EXIT_CODE_CANCELED
C32_CancelDuringPause ==
    [][CancelledInPause =>
          /\ \/ CancelledInPause' /\ control_value' \in {control_value, PROCESS_CONTROL_EXIT}
             \/ pc' = "done" /\ exit_status' = EXIT_CODE_CANCELED
                /\ finished_signal' = Append(finished_signal, EXIT_CODE_CANCELED)
          /\ \A w \in DOMAIN processes :
                (processes[w].st = "pause" /\ w \in DOMAIN processes')
                   => processes'[w].st \in {"pause", "exited"}]_vars

\* A pause of a pool is cancelled while request_resume is set too: the control
\* value is EXIT and a worker has left its pause loop for good
C32_Witness ==
    /\ orch = "kill" /\ paused /\ request_resume /\ request_cancel
    /\ control_value = PROCESS_CONTROL_EXIT
    /\ \E w \in DOMAIN processes : processes[w].st = "exited" /\ ~processes[w].killed

\* C33: a validate run never creates, modifies or deletes a file or directory
\* under the destination, the checksums file included: from the start of a
\* validation to the start of the next run, whatever the outcome of the
\* validation is, no step changes the file system or the records of the
\* checksums file
C33_ValidationIsReadOnly ==
    [][hist'.validate => fs' = fs /\ manifest' = manifest]_vars

\* a cancelled validation of a destination that holds a copied file and the
\* checksums file
C33_Witness ==
    /\ pc = "done" /\ hist.validate /\ hist.cancel
    /\ exit_status = EXIT_CODE_CANCELED
    /\ exists(fs, checksum_file_out)
    /\ \E p \in DOMAIN fs : p # checksum_file_out /\ is_path_relative_to(output_dir, p)
                            /\ isfile(fs, p)

\* the validations that end with each of the other two codes
C33_WitnessOfSuccess ==
    pc = "done" /\ hist.validate /\ exit_status = EXIT_CODE_SUCCESSFULLY

C33_WitnessOfError ==
    pc = "done" /\ hist.validate /\ exit_status = EXIT_CODE_ERROR

\* Every worker is through with its files
CountersAtRest == call.op = "counters" /\ \A w \in 1..2 : call.st[w] = "next" /\ call.todo[w] = <<>>

\* C34: when the digest workers are through, the counter of the digest errors
\* equals the number of calculations that failed and the counter of the
\* calculated digests equals the number of those that succeeded, in every
\* interleaving of the steps of the workers
C34_CountersLoseNoUpdate ==
    CountersAtRest => /\ call.value["error"] = call.attempts["error"]
                      /\ call.value["ok"] = call.attempts["ok"]

\* two workers have failed on files at the same time: one waited for the lock
\* while the other incremented the counter of the errors
C34_Witness ==
    CountersAtRest /\ call.contended /\ call.attempts["error"] >= 2

\* int(x) of a quotient a / b with b > 0: the fraction is cut off
Trunc(a, b) == IF a >= 0 THEN a \div b ELSE -((-a) \div b)

\* Backupper._update_progress_bar_status_bar(stage_step, stage_steps): the
\* values the call can emit to the set-progress sink in this state.  The total
\* progress is (steps_progress + _stage_current - 1) / _stages_total with
\* steps_progress cut to 0..1; it is a float, so that a product with 100 that
\* is a whole number can come out just below it
update_progress_bar_status_bar(stage_step, stage_steps) ==
    IF stages_total <= 0 \/ stage_steps = 0 THEN {}
    ELSE LET step == IF stage_step > stage_steps THEN stage_steps
                     ELSE IF stage_step < 0 THEN 0 ELSE stage_step
             num == 100 * (step + (stage_current - 1) * stage_steps)
             den == stage_steps * stages_total
             exact == Trunc(num, den)
         IN  IF num % den = 0 /\ num # 0 THEN {exact, exact - 1} ELSE {exact}

\* The steps of stage 1 and those of the loops over the entries of a stage
StageSteps == {<<10, 100>>, <<50, 100>>, <<100, 100>>}
              \cup ((0..MaxEntries) \X (0..MaxEntries))

\* C35: every value emitted to the set-progress sink during a run is an
\* integer of 0..100, and the number of the current stage never exceeds the
\* number of the stages of the run, whatever delete_data, create_empty_dirs
\* and generate_tree are
C35_ProgressRange ==
    /\ stage_current <= stages_total
    /\ Active => /\ stage_current >= 1
                 /\ \A a \in StageSteps :
                       update_progress_bar_status_bar(a[1], a[2]) \subseteq 0..100

\* the last stage of a backup with the three optional stages, where the last
\* step of the stage emits 100
C35_Witness ==
    /\ pc = "tree_txt" /\ stage_current = 8 /\ stages_total = 8
    /\ cfg.delete_data /\ cfg.create_empty_dirs /\ cfg.generate_tree
    /\ 100 \in update_progress_bar_status_bar(MaxEntries, MaxEntries)

\* the last stage of a backup with none of the optional stages
C35_WitnessOfFive ==
    /\ pc = "sums_final" /\ stage_current = 5 /\ stages_total = 5
    /\ ~cfg.delete_data /\ ~cfg.create_empty_dirs /\ ~cfg.generate_tree

\* The step is the return of a call of start_backup or of validate
Returns == pc' = "done" /\ (Active \/ runs' = runs + 1)

\* C36: every call of start_backup or of validate emits finished once, with
\* the exit code the call returns, and leaves the request flags and the paused
\* flag false: finished is emitted by the step a call returns with and by no
\* other step
C36_FinishedExactlyOnce ==
    [][/\ Returns => /\ finished_signal' = Append(finished_signal, exit_status')
                      /\ ~request_pause' /\ ~request_resume' /\ ~request_cancel'
                      /\ ~paused'
       /\ ~Returns => finished_signal' = finished_signal]_vars

\* finished has been emitted as many times as calls have returned
FinishedOncePerCall == Len(finished_signal) = IF Active THEN runs - 1 ELSE runs

\* a cancelled backup, then a validation that ends with the
\* exception of stage 1
C36_Witness ==
    /\ pc = "done" /\ runs = 2 /\ hist.validate
    /\ hist.prev_status = EXIT_CODE_CANCELED
    /\ finished_signal = <<EXIT_CODE_CANCELED, EXIT_CODE_ERROR>>

\* a backup that ends with success after a pause and a resume
C36_WitnessOfSuccess ==
    /\ pc = "done" /\ ~hist.validate /\ hist.pause /\ ~hist.cancel
    /\ finished_signal = <<EXIT_CODE_SUCCESSFULLY>>

\* cancel during the pause of a pool and of a loop of one thread
C36_WitnessOfPause ==
    /\ orch = "kill" /\ paused /\ request_cancel /\ pc \in PoolStages

C36_WitnessOfLoop ==
    /\ orch = "pause" /\ paused /\ request_cancel /\ pc \in LoopStages

\* C37: at the moment finished is emitted, with EXIT_CODE_ERROR after an
\* exception of the orchestrator while a pool is running as with any other
\* code, no worker the run has started is alive
C37_NoOrphanWorkers ==
    [][(call.op = "start" /\ call'.finished_signal # call.finished_signal)
          => StartedAlive(call') = {}]_vars

\* C38: for every workload profile and every number of CPUs, a pool with at
\* least one work item starts at least one worker
C38_AtLeastOneWorker ==
    (call.op = "workers" /\ call.step = "started" /\ call.items >= 1)
       => call.processes_num >= 1

\* the same for machines of four CPUs and more, the deletion pool left out
AtLeastOneWorkerOfFourCpus ==
    (call.op = "workers" /\ call.step = "started" /\ call.items >= 1
     /\ call.cpu_cores >= 4 /\ call.pool # "delete")
       => call.processes_num >= 1

\* the deletion pool of a mirror tree with directories and no regular file
DeletionPoolHasWorker ==
    (call.op = "workers" /\ call.step = "started" /\ call.pool = "delete"
     /\ call.size.files = 0 /\ call.size.dirs >= 1)
       => call.processes_num >= 1

\* backup_active and validation_active are never both true, and every run has
\* been started with both of them false
ActiveFlagsExclusive ==
    call.op = "gui" => /\ ~(call.backup_active /\ call.validation_active)
                       /\ \A i \in DOMAIN call.started_when : ~call.started_when[i]

\* At most one thread is before the emission of finished
SingleRunBeforeFinished ==
    call.op = "gui" =>
       Cardinality({t \in RunIds : call.threads[t] \in {"started", "running", "paused"}}) <= 1

\* C39: under every sequence of actions of the user and of callbacks, at most
\* one thread of start_backup or validate runs on the Backupper at any time,
\* backup_active and validation_active are never both true, and a run is
\* started only when both are false
C39_SingleActiveRun ==
    call.op = "gui" => /\ Cardinality(ThreadsAlive(call)) <= 1
                       /\ ~(call.backup_active /\ call.validation_active)
                       /\ \A i \in DOMAIN call.started_when : ~call.started_when[i]

====
